---- MODULE Spec2Model ----
(***************************************************************************)
(* A model of the two-pass TMIPS assembler of src/assembler.c.             *)
(*                                                                         *)
(* C strings are sequences of one-character strings, so that the           *)
(* tokenising, trimming and number conversion of the source are computed   *)
(* character by character as the C code computes them.  A C index i is the *)
(* TLA+ index i+1.                                                         *)
(***************************************************************************)
EXTENDS Integers, Sequences, FiniteSets, TLC

(***************************************************************************)
(* Program constants (src/assembler.c, #define section).                   *)
(***************************************************************************)
HASH_SIZE == 13
BASE == 127
IMMEDIATE_LEN == 17
INST_LEN == 33
REGBITS == 6
LABEL_LEN == 32

ERR_OPCODE == "ERR_OPCODE"
ERR_UNDEFSYMBOL == "ERR_UNDEFSYMBOL"
ERR_MULTSYMBOL == "ERR_MULTSYMBOL"

RTYPE == "RTYPE"
ITYPE == "ITYPE"
JTYPE == "JTYPE"

(***************************************************************************)
(* Characters.                                                             *)
(***************************************************************************)
\* The printable ASCII characters in code order, starting at code 32.
Ascii ==
  << " ", "!", "\"", "#", "$", "%", "&", "'", "(", ")", "*", "+", ",", "-", ".", "/",
     "0", "1", "2", "3", "4", "5", "6", "7", "8", "9", ":", ";", "<", "=", ">", "?",
     "@", "A", "B", "C", "D", "E", "F", "G", "H", "I", "J", "K", "L", "M", "N", "O",
     "P", "Q", "R", "S", "T", "U", "V", "W", "X", "Y", "Z", "[", "\\", "]", "^", "_",
     "grave", "a", "b", "c", "d", "e", "f", "g", "h", "i", "j", "k", "l", "m", "n", "o",
     "p", "q", "r", "s", "t", "u", "v", "w", "x", "y", "z", "{", "|", "}", "~" >>

\* Some bytes above 127, each named by its hex code, and the values they have
\* as a (signed) char.
HighBytes == << "x80", "xA9", "xFF" >>

HighValues == << 0 - 128, 0 - 87, 0 - 1 >>

\* The value of a char as the int that *s promotes to (code 96, the grave
\* accent, has a placeholder in the table).
Ord(c) ==
  IF c = "\t" THEN 9
  ELSE IF c = "\n" THEN 10
  ELSE IF \E i \in 1..Len(HighBytes) : HighBytes[i] = c
    THEN HighValues[CHOOSE i \in 1..Len(HighBytes) : HighBytes[i] = c]
  ELSE 31 + (CHOOSE i \in 1..Len(Ascii) : Ascii[i] = c)

DigitChars == << "0", "1", "2", "3", "4", "5", "6", "7", "8", "9" >>

isdigit(c) == \E i \in 1..10 : DigitChars[i] = c

DigitVal(c) == (CHOOSE i \in 1..10 : DigitChars[i] = c) - 1

\* <ctype.h> isspace, on the characters a source line can hold.
isspace(c) == c \in {" ", "\t", "\n", "\r", "\f"}

(***************************************************************************)
(* <string.h> / <stdlib.h> functions as the C library computes them.       *)
(***************************************************************************)
\* strchr(s, c) != NULL
strchr(s, c) == \E i \in 1..Len(s) : s[i] = c

\* strstr(s, w) != NULL
strstr(s, w) ==
  \E i \in 1..(Len(s) - Len(w) + 1) : SubSeq(s, i, i + Len(w) - 1) = w

RECURSIVE SkipDelims(_, _)
SkipDelims(s, d) ==
  IF s # <<>> /\ Head(s) \in d THEN SkipDelims(Tail(s), d) ELSE s

RECURSIVE TakeToken(_, _)
TakeToken(s, d) ==
  IF s = <<>> \/ Head(s) \in d THEN <<>>
  ELSE <<Head(s)>> \o TakeToken(Tail(s), d)

\* One strtok call on the text still to be scanned: ok is FALSE for a NULL
\* result, tok the token, rest the text a later strtok(NULL, ...) scans.
strtok(s, d) ==
  LET t     == SkipDelims(s, d)
      tok   == TakeToken(t, d)
      after == SubSeq(t, Len(tok) + 1, Len(t))
  IN  IF t = <<>>
        THEN [ok |-> FALSE, tok |-> <<>>, rest |-> <<>>]
        ELSE [ok |-> TRUE, tok |-> tok,
              rest |-> IF after = <<>> THEN <<>> ELSE Tail(after)]

RECURSIVE DigitsValue(_, _)
DigitsValue(s, acc) ==
  IF s # <<>> /\ isdigit(Head(s))
    THEN DigitsValue(Tail(s), 10 * acc + DigitVal(Head(s)))
    ELSE acc

\* atoi: leading white space, an optional sign, then digits up to the first
\* character that is no digit.
atoi(s) ==
  LET t == SkipDelims(s, {" ", "\t", "\n", "\r", "\f"})
  IN  IF t = <<>> THEN 0
      ELSE IF Head(t) = "-" THEN 0 - DigitsValue(Tail(t), 0)
      ELSE IF Head(t) = "+" THEN DigitsValue(Tail(t), 0)
      ELSE DigitsValue(t, 0)

RECURSIVE NatToStr(_)
NatToStr(n) ==
  IF n < 10 THEN <<DigitChars[n + 1]>>
  ELSE NatToStr(n \div 10) \o <<DigitChars[(n % 10) + 1]>>

\* sprintf(buf, "%d", n)
IntToStr(n) == IF n < 0 THEN <<"-">> \o NatToStr(0 - n) ELSE NatToStr(n)

(***************************************************************************)
(* Utility functions of the assembler.                                     *)
(***************************************************************************)
commentExists(line) == strchr(line, "#")

isBlank(line) == \A i \in 1..Len(line) : line[i] \in {" ", "\n", "\t"}

RECURSIVE isComment(_)
isComment(line) ==
  IF line = <<>> THEN FALSE
  ELSE IF Head(line) = "#" THEN TRUE
  ELSE IF Head(line) # "\t" /\ Head(line) # " " THEN FALSE
  ELSE isComment(Tail(line))

\* Every # becomes a terminator: the string ends before its first #.
stripComment(line) == TakeToken(line, {"#"})

RECURSIVE TrimTrailing(_)
TrimTrailing(s) ==
  IF Len(s) > 1 /\ isspace(s[Len(s)]) THEN TrimTrailing(SubSeq(s, 1, Len(s) - 1))
  ELSE s

trimWhiteSpace(str) ==
  LET s == SkipDelims(str, {" ", "\t", "\n", "\r", "\f"})
  IN  IF s = <<>> THEN s ELSE TrimTrailing(s)

\* A field of n characters "0" (n is at most INST_LEN-1).
Zeros(n) ==
  SubSeq(<< "0", "0", "0", "0", "0", "0", "0", "0", "0", "0", "0", "0", "0", "0", "0", "0",
            "0", "0", "0", "0", "0", "0", "0", "0", "0", "0", "0", "0", "0", "0", "0", "0" >>,
         1, n)

BitChar(b) == IF b = 1 THEN "1" ELSE "0"

\* "compute binary and fill the string": while (dec > 0) { bin[i] = dec % 2;
\* dec /= 2; i--; } with i a C index.  A write at i < 0 falls outside bin.
RECURSIVE fillBin(_, _, _)
fillBin(bin, dec, i) ==
  IF dec > 0
    THEN fillBin(IF i >= 0 THEN [bin EXCEPT ![i + 1] = BitChar(dec % 2)] ELSE bin,
                 dec \div 2, i - 1)
    ELSE bin

\* "negate the bits"
RECURSIVE negateBits(_)
negateBits(bin) ==
  IF bin = <<>> THEN <<>>
  ELSE <<IF Head(bin) = "1" THEN "0" ELSE IF Head(bin) = "0" THEN "1" ELSE Head(bin)>>
       \o negateBits(Tail(bin))

\* "add 1": i = strlen(bin)-1; carry = 1; while (i > 0) { ... i--; }
RECURSIVE addOne(_, _, _)
addOne(bin, i, carry) ==
  IF i > 0
    THEN IF carry = 1
           THEN IF bin[i + 1] = "0"
                  THEN addOne([bin EXCEPT ![i + 1] = "1"], i - 1, 0)
                  ELSE addOne([bin EXCEPT ![i + 1] = "0"], i - 1, 1)
           ELSE addOne(bin, i - 1, carry)
    ELSE bin

\* The conversion shared by immToBin, subImmToBin and numTo32Bin, on a field
\* of n characters.
decToBin(text, n) ==
  LET dec     == atoi(text)
      negflag == dec < 0
      mag     == IF negflag THEN 0 - dec ELSE dec
      bin     == fillBin(Zeros(n), mag, n - 1)
  IN  IF negflag THEN addOne(negateBits(bin), n - 1, 1) ELSE bin

immToBin(imm) == decToBin(imm, IMMEDIATE_LEN - 1)

numTo32Bin(num) == decToBin(num, INST_LEN - 1)

\* The copy loop of subImmToBin: for (i=start; i<=end; i++) { int j=1;
\* nbin[IMMEDIATE_LEN-j] = bin[i]; j++; } with nbin an array of IMMEDIATE_LEN
\* chars.  j is 1 in every iteration, so every write lands on C index
\* IMMEDIATE_LEN-1, the place of the terminator.
RECURSIVE subCopy(_, _, _, _)
subCopy(nbin, bin, i, end) ==
  IF i <= end
    THEN subCopy([nbin EXCEPT ![IMMEDIATE_LEN - 1 + 1] = bin[i + 1]], bin, i + 1, end)
    ELSE nbin

\* The 16 characters of the field that subImmToBin leaves in imm (what lies
\* behind them, where the terminator was, is not part of the field).
subImmToBin(imm, end, start) ==
  LET bin  == decToBin(imm, INST_LEN - 1)
      nbin == subCopy(Zeros(IMMEDIATE_LEN - 1) \o <<"NUL">>, bin, start, end)
  IN  SubSeq(nbin, 1, IMMEDIATE_LEN - 1)

RECURSIVE StripDollar(_)
StripDollar(reg) ==
  IF reg = <<>> THEN <<>>
  ELSE IF Head(reg) = "$" THEN StripDollar(Tail(reg))
  ELSE <<Head(reg)>> \o StripDollar(Tail(reg))

\* The number dec that regToBin computes from the token: reg[0] is $ and the
\* first character that is no $ is t (atoi of what follows, plus 8) or s
\* (plus 16); 0 otherwise.
regDec(reg) ==
  LET integer == StripDollar(reg)
      first   == IF integer = <<>> THEN "" ELSE Head(integer)
      dollar  == reg # <<>> /\ Head(reg) = "$"
  IN  IF dollar /\ first = "t" THEN atoi(Tail(integer)) + 8
      ELSE IF dollar /\ first = "s" THEN atoi(Tail(integer)) + 16
      ELSE 0

regToBin(reg) == fillBin(Zeros(REGBITS - 1), regDec(reg), REGBITS - 2)

\* Mutant of HexDigit: the digits above 9 are written in lower case.
HexDigitLower(sub) ==
  IF sub = <<"0","0","0","0">> THEN <<"0">>
  ELSE IF sub = <<"0","0","0","1">> THEN <<"1">>
  ELSE IF sub = <<"0","0","1","0">> THEN <<"2">>
  ELSE IF sub = <<"0","0","1","1">> THEN <<"3">>
  ELSE IF sub = <<"0","1","0","0">> THEN <<"4">>
  ELSE IF sub = <<"0","1","0","1">> THEN <<"5">>
  ELSE IF sub = <<"0","1","1","0">> THEN <<"6">>
  ELSE IF sub = <<"0","1","1","1">> THEN <<"7">>
  ELSE IF sub = <<"1","0","0","0">> THEN <<"8">>
  ELSE IF sub = <<"1","0","0","1">> THEN <<"9">>
  ELSE IF sub = <<"1","0","1","0">> THEN <<"a">>
  ELSE IF sub = <<"1","0","1","1">> THEN <<"b">>
  ELSE IF sub = <<"1","1","0","0">> THEN <<"c">>
  ELSE IF sub = <<"1","1","0","1">> THEN <<"d">>
  ELSE IF sub = <<"1","1","1","0">> THEN <<"e">>
  ELSE IF sub = <<"1","1","1","1">> THEN <<"f">>
  ELSE <<>>

\* The chain of strcmp(sub, "0000") ... strcmp(sub, "1111"): what strcat adds
\* to hex for the four characters sub (nothing if no string matches).
HexDigit(sub) ==
  IF sub = <<"0","0","0","0">> THEN <<"0">>
  ELSE IF sub = <<"0","0","0","1">> THEN <<"1">>
  ELSE IF sub = <<"0","0","1","0">> THEN <<"2">>
  ELSE IF sub = <<"0","0","1","1">> THEN <<"3">>
  ELSE IF sub = <<"0","1","0","0">> THEN <<"4">>
  ELSE IF sub = <<"0","1","0","1">> THEN <<"5">>
  ELSE IF sub = <<"0","1","1","0">> THEN <<"6">>
  ELSE IF sub = <<"0","1","1","1">> THEN <<"7">>
  ELSE IF sub = <<"1","0","0","0">> THEN <<"8">>
  ELSE IF sub = <<"1","0","0","1">> THEN <<"9">>
  ELSE IF sub = <<"1","0","1","0">> THEN <<"A">>
  ELSE IF sub = <<"1","0","1","1">> THEN <<"B">>
  ELSE IF sub = <<"1","1","0","0">> THEN <<"C">>
  ELSE IF sub = <<"1","1","0","1">> THEN <<"D">>
  ELSE IF sub = <<"1","1","1","0">> THEN <<"E">>
  ELSE IF sub = <<"1","1","1","1">> THEN <<"F">>
  ELSE <<>>

RECURSIVE binToHex(_, _, _)
binToHex(bin, i, limit) ==
  IF i < limit
    THEN HexDigit(SubSeq(bin, i + 1, i + 4)) \o binToHex(bin, i + 4, limit)
    ELSE <<>>

binToHex32(bin) == binToHex(bin, 0, LABEL_LEN)

addrToHex(address) ==
  binToHex(fillBin(Zeros(IMMEDIATE_LEN - 1), address, IMMEDIATE_LEN - 2),
           0, IMMEDIATE_LEN - 1)

(***************************************************************************)
(* Symbol table: a list of table nodes, one per key, each with the list of *)
(* its entries.                                                            *)
(***************************************************************************)
\* Mutant of hashLoop: temp is not made positive, and % gives the remainder
\* of C, which has the sign of temp.
RECURSIVE hashLoopSigned(_, _, _)
hashLoopSigned(s, T, h) ==
  IF s = <<>> THEN h
  ELSE LET temp == BASE * h + Ord(Head(s))
       IN  hashLoopSigned(Tail(s), T,
                          IF temp < 0 THEN 0 - ((0 - temp) % T) ELSE temp % T)

RECURSIVE hashLoop(_, _, _)
hashLoop(s, T, h) ==
  IF s = <<>> THEN h
  ELSE LET temp == BASE * h + Ord(Head(s))
       IN  hashLoop(Tail(s), T, (IF temp < 0 THEN 0 - temp ELSE temp) % T)

hashgen(s, T) == hashLoop(s, T, 0)

addhashnode(head, key, val, address) ==
  LET entry == [value |-> val, address |-> address]
      fresh == [key |-> key, head |-> <<entry>>, entries |-> 1]
  IN  IF head = <<>> THEN <<fresh>>
      ELSE IF \E i \in 1..Len(head) : head[i].key = key
        THEN LET i == CHOOSE k \in 1..Len(head) :
                        /\ head[k].key = key
                        /\ \A j \in 1..(k - 1) : head[j].key # key
             IN  [head EXCEPT ![i] = [key     |-> head[i].key,
                                      head    |-> Append(head[i].head, entry),
                                      entries |-> head[i].entries + 1]]
        ELSE Append(head, fresh)

RECURSIVE scanEntries(_, _)
scanEntries(lcur, val) ==
  IF lcur = <<>> THEN [found |-> FALSE, address |-> 0]
  ELSE IF Head(lcur).value = val
    THEN [found |-> TRUE, address |-> Head(lcur).address]
    ELSE scanEntries(Tail(lcur), val)

\* found is the int that checkHash returns, address what it stores in *address.
RECURSIVE checkHash(_, _, _)
checkHash(head, key, val) ==
  IF head = <<>> THEN [found |-> FALSE, address |-> 0]
  ELSE IF Head(head).key = key /\ scanEntries(Head(head).head, val).found
    THEN scanEntries(Head(head).head, val)
    ELSE checkHash(Tail(head), key, val)

(***************************************************************************)
(* Lists.                                                                  *)
(***************************************************************************)
add_node(list, node) == [head |-> Append(list.head, node), count |-> list.count + 1]

add_datanode(list, node) == [head |-> Append(list.head, node), count |-> list.count + 1]

\* Mutant of errInsertAt: the walk stops in front of the first node whose
\* line number is larger or equal.
RECURSIVE errInsertAtTiesFirst(_, _, _)
errInsertAtTiesFirst(head, lineno, cur) ==
  IF cur < Len(head)
    THEN IF lineno <= head[cur + 1].lineno THEN cur
         ELSE errInsertAtTiesFirst(head, lineno, cur + 1)
    ELSE cur

\* The position (the number of nodes in front) at which add_err links node:
\* cur walks from the head and stops in front of the first node with a
\* larger line number, or at the last node.
RECURSIVE errInsertAt(_, _, _)
errInsertAt(head, lineno, cur) ==
  IF cur < Len(head)
    THEN IF lineno < head[cur + 1].lineno THEN cur
         ELSE errInsertAt(head, lineno, cur + 1)
    ELSE cur

\* Mutant of add_err: the first error of a list is linked but not counted.
add_err_uncounted(list, node) ==
  IF list.head = <<>>
    THEN [head |-> <<node>>, count |-> list.count]
  ELSE IF node.lineno < list.head[1].lineno
    THEN [head |-> <<node>> \o list.head, count |-> list.count + 1]
  ELSE LET k == errInsertAt(list.head, node.lineno, 1)
       IN  [head  |-> SubSeq(list.head, 1, k) \o <<node>>
                      \o SubSeq(list.head, k + 1, Len(list.head)),
            count |-> list.count + 1]

add_err(list, node) ==
  IF list.head = <<>>
    THEN [head |-> <<node>>, count |-> list.count + 1]
  ELSE IF node.lineno < list.head[1].lineno
    THEN [head |-> <<node>> \o list.head, count |-> list.count + 1]
  ELSE LET k == errInsertAt(list.head, node.lineno, 1)
       IN  [head  |-> SubSeq(list.head, 1, k) \o <<node>>
                      \o SubSeq(list.head, k + 1, Len(list.head)),
            count |-> list.count + 1]

\* A field that malloc left unset.
Unset == <<"?">>

OpcodeErr(lineno, opname) ==
  [errtype |-> ERR_OPCODE, lineno |-> lineno, symbol |-> Unset, opcode |-> opname]

\* Mutant of SymbolErr: the error gets the line after the one handed over.
SymbolErrLineAfter(errtype, lineno, symbol) ==
  [errtype |-> errtype, lineno |-> lineno + 1, symbol |-> symbol,
   opcode |-> Unset]

SymbolErr(errtype, lineno, symbol) ==
  [errtype |-> errtype, lineno |-> lineno, symbol |-> symbol, opcode |-> Unset]

(***************************************************************************)
(* Source lines.                                                           *)
(***************************************************************************)
\* The source lines a run draws from, each as fgets returns it.
Catalogue ==
  <<
     \* 1: .text\n
     << ".", "t", "e", "x", "t", "\n" >>,
     \* 2: .data\n
     << ".", "d", "a", "t", "a", "\n" >>,
     \* 3: M: j L\n
     << "M", ":", " ", "j", " ", "L", "\n" >>,
     \* 4: L: add $t0,$s1,$s2\n
     << "L", ":", " ", "a", "d", "d", " ", "$", "t", "0", ",", "$", "s", "1", ",", "$", "s", "2", "\n" >>,
     \* 5: bne $t0,$s1,M\n
     << "b", "n", "e", " ", "$", "t", "0", ",", "$", "s", "1", ",", "M", "\n" >>,
     \* 6: M: .word -1:2\n
     << "M", ":", " ", ".", "w", "o", "r", "d", " ", "-", "1", ":", "2", "\n" >>,
     \* 7: L: .resw 1\n
     << "L", ":", " ", ".", "r", "e", "s", "w", " ", "1", "\n" >>,
     \* 8: la $t0,M\n
     << "l", "a", " ", "$", "t", "0", ",", "M", "\n" >>,
     \* 9:   # c\n
     << " ", " ", "#", " ", "c", "\n" >>,
     \* 10: foo $t0 # x\n
     << "f", "o", "o", " ", "$", "t", "0", " ", "#", " ", "x", "\n" >>,
     \* 11: add $t0, $s1, $s2\n
     << "a", "d", "d", " ", "$", "t", "0", ",", " ", "$", "s", "1", ",", " ", "$", "s", "2", "\n" >>,
     \* 12: nor $t1,$s0,$t2\n
     << "n", "o", "r", " ", "$", "t", "1", ",", "$", "s", "0", ",", "$", "t", "2", "\n" >>,
     \* 13: ori $t0,$s1,5\n
     << "o", "r", "i", " ", "$", "t", "0", ",", "$", "s", "1", ",", "5", "\n" >>,
     \* 14: L: la $t0,M\n
     << "L", ":", " ", "l", "a", " ", "$", "t", "0", ",", "M", "\n" >>,
     \* 15: sll $t0,$s1,0\n
     << "s", "l", "l", " ", "$", "t", "0", ",", "$", "s", "1", ",", "0", "\n" >>,
     \* 16: sll $t0,$s1,5\n
     << "s", "l", "l", " ", "$", "t", "0", ",", "$", "s", "1", ",", "5", "\n" >>,
     \* 17: M: sll $t1,$s0,31\n
     << "M", ":", " ", "s", "l", "l", " ", "$", "t", "1", ",", "$", "s", "0", ",", "3", "1", "\n" >>,
     \* 18: .word 5:1\n
     << ".", "w", "o", "r", "d", " ", "5", ":", "1", "\n" >>,
     \* 19: L:\n
     << "L", ":", "\n" >>
  >>

W_text == << ".", "t", "e", "x", "t" >>
W_data == << ".", "d", "a", "t", "a" >>
W_word == << ".", "w", "o", "r", "d" >>
W_resw == << ".", "r", "e", "s", "w" >>
W_add  == << "a", "d", "d" >>
W_addi == << "a", "d", "d", "i" >>
W_nor  == << "n", "o", "r" >>
W_ori  == << "o", "r", "i" >>
W_sll  == << "s", "l", "l" >>
W_lui  == << "l", "u", "i" >>
W_sw   == << "s", "w" >>
W_lw   == << "l", "w" >>
W_bne  == << "b", "n", "e" >>
W_j    == << "j" >>
W_la   == << "l", "a" >>

Opcodes == {W_add, W_addi, W_nor, W_ori, W_sll, W_lui, W_sw, W_lw, W_bne, W_j}

\* The line as both sections see it after the comment and white-space steps.
Cleaned(line) ==
  trimWhiteSpace(IF commentExists(line) THEN stripComment(line) ELSE line)

\* The lines that both sections skip: blank lines and full-line comments.
Skipped(line) == isBlank(line) \/ (commentExists(line) /\ isComment(line))

\* if (label[strlen(label)-1] == ':') label[strlen(label)-1] = '\0';
stripColon(label) ==
  IF label # <<>> /\ label[Len(label)] = ":"
    THEN SubSeq(label, 1, Len(label) - 1)
    ELSE label

\* The text section's split of a statement: label, opname and the three
\* arguments (a missing one is the empty string).
TextParse(raw) ==
  LET line     == Cleaned(raw)
      hasLabel == strchr(line, ":")
      t1       == strtok(line, {" ", "\t"})
      t2       == strtok(t1.rest, {" ", "\t"})
      t3       == strtok(t2.rest, {" ", "\t"})
      rest     == IF hasLabel
                    THEN t2.tok \o (IF t3.ok THEN <<" ">> \o t3.tok ELSE <<>>)
                    ELSE line
      u1       == strtok(rest, {" ", "\t"})
      u2       == strtok(u1.rest, {" ", "\t"})
      instargs == IF u2.ok THEN u2.tok ELSE <<>>
      a1       == strtok(instargs, {","})
      a2       == strtok(a1.rest, {","})
      a3       == strtok(a2.rest, {","})
  IN  [hasLabel |-> hasLabel,
       label    |-> IF hasLabel THEN stripColon(t1.tok) ELSE <<>>,
       opname   |-> u1.tok,
       arg1     |-> IF a1.ok THEN a1.tok ELSE <<>>,
       arg2     |-> IF a2.ok THEN a2.tok ELSE <<>>,
       arg3     |-> IF a3.ok THEN a3.tok ELSE <<>>,
       \* strcat(line, NULL) or strcpy(opname, NULL) is not reached
       defined  |-> (hasLabel => t2.ok) /\ u1.ok]

\* The immediate and register of the imm(reg) operand of sw and lw.
BaseParse(arg2) ==
  LET b1 == strtok(arg2, {"("})
      b2 == strtok(b1.rest, {"(", ")"})
  IN  [immarg |-> b1.tok, regarg |-> b2.tok, defined |-> b1.ok /\ b2.ok]

\* The data section's split of a line: label, directive and arguments.
DataParse(raw) ==
  LET line == Cleaned(raw)
      t1   == strtok(line, {" "})
      t2   == strtok(t1.rest, {" "})
      t3   == strtok(t2.rest, {})
      dir  == IF t2.ok THEN t2.tok ELSE <<>>
      args == IF t3.ok THEN t3.tok ELSE <<>>
      w1   == strtok(args, {":"})
      w2   == strtok(w1.rest, {":"})
  IN  [label     |-> stripColon(t1.tok),
       directive |-> dir,
       instargs  |-> args,
       arg1      |-> w1.tok,
       arg2      |-> w2.tok,
       defined   |-> t1.ok /\ (dir = W_word => w1.ok /\ w2.ok)]

\* The third white-space separated token of the line that la reads ahead.
AheadParse(linen) ==
  LET t1 == strtok(linen, {" ", "\t"})
      t2 == strtok(t1.rest, {" ", "\t"})
      t3 == strtok(t2.rest, {" ", "\t"})
  IN  IF t3.ok THEN t3.tok ELSE <<>>

\* The parses of the catalogue's lines, computed once.
TextParsed == [l \in 1..Len(Catalogue) |-> TextParse(Catalogue[l])]

DataParsed == [l \in 1..Len(Catalogue) |-> DataParse(Catalogue[l])]

SkippedLines == {l \in 1..Len(Catalogue) : Skipped(Catalogue[l])}

DotTextLines == {l \in 1..Len(Catalogue) : strstr(Catalogue[l], W_text)}

DotDataLines == {l \in 1..Len(Catalogue) : strstr(Catalogue[l], W_data)}

\* The node that the text section allocates, with its fields zeroed.
NewInst(address, lineno, opname, label) ==
  [address |-> address, lineno |-> lineno, label |-> label,
   inst_type |-> Unset, opcode_name |-> opname, opcode_bin |-> Unset,
   bin_inst |-> <<>>, hex_inst |-> Unset,
   rs1 |-> Zeros(5), rs2 |-> Zeros(5), rt |-> Zeros(5), sa |-> Zeros(5),
   imm |-> Zeros(16), symbol |-> Unset]

\* The opcode dispatch for every opcode but la: the fields that the branch of
\* opname sets in the node n from the arguments of the parse p.
Dispatch(n, p) ==
  IF p.opname = W_add THEN
    [n EXCEPT !.inst_type = RTYPE, !.opcode_bin = <<"1","0","0","0","0","0">>,
              !.rt = regToBin(p.arg1), !.rs1 = regToBin(p.arg2), !.rs2 = regToBin(p.arg3)]
  ELSE IF p.opname = W_addi THEN
    [n EXCEPT !.inst_type = ITYPE, !.opcode_bin = <<"0","0","1","0","0","0">>,
              !.rt = regToBin(p.arg1), !.rs1 = regToBin(p.arg2), !.imm = immToBin(p.arg3)]
  ELSE IF p.opname = W_nor THEN
    [n EXCEPT !.inst_type = RTYPE, !.opcode_bin = <<"1","0","0","1","1","1">>,
              !.rt = regToBin(p.arg1), !.rs1 = regToBin(p.arg2), !.rs2 = regToBin(p.arg3)]
  ELSE IF p.opname = W_ori THEN
    [n EXCEPT !.inst_type = RTYPE, !.opcode_bin = <<"0","0","1","1","0","1">>,
              !.rt = regToBin(p.arg1), !.rs1 = regToBin(p.arg2), !.imm = immToBin(p.arg3)]
  ELSE IF p.opname = W_sll THEN
    [n EXCEPT !.inst_type = RTYPE, !.opcode_bin = <<"0","0","0","0","0","0">>,
              !.rt = regToBin(p.arg1), !.rs1 = regToBin(p.arg2), !.sa = regToBin(p.arg3)]
  ELSE IF p.opname = W_lui THEN
    [n EXCEPT !.inst_type = ITYPE, !.opcode_bin = <<"0","0","1","1","1","1">>,
              !.rt = regToBin(p.arg1), !.imm = immToBin(p.arg2)]
  ELSE IF p.opname = W_sw THEN
    [n EXCEPT !.inst_type = ITYPE, !.opcode_bin = <<"1","0","1","0","1","1">>,
              !.rt = regToBin(p.arg1), !.imm = immToBin(BaseParse(p.arg2).immarg),
              !.rs1 = regToBin(BaseParse(p.arg2).regarg)]
  ELSE IF p.opname = W_lw THEN
    [n EXCEPT !.inst_type = ITYPE, !.opcode_bin = <<"1","0","0","0","1","1">>,
              !.rt = regToBin(p.arg1), !.imm = immToBin(BaseParse(p.arg2).immarg),
              !.rs1 = regToBin(BaseParse(p.arg2).regarg)]
  ELSE IF p.opname = W_bne THEN
    [n EXCEPT !.inst_type = ITYPE, !.opcode_bin = <<"0","0","0","1","1","0">>,
              !.rt = regToBin(p.arg1), !.rs1 = regToBin(p.arg2), !.symbol = p.arg3]
  ELSE \* j
    [n EXCEPT !.inst_type = JTYPE, !.opcode_bin = <<"0","0","0","0","1","0">>,
              !.symbol = p.arg1]

\* The first node of la: lui of bits 31..16 of the literal argi.
LaFirst(n, p, argi) ==
  [n EXCEPT !.inst_type = ITYPE, !.opcode_bin = <<"0","0","1","1","1","1">>,
            !.rt = regToBin(p.arg1), !.imm = subImmToBin(argi, 31, 16)]

\* The second node of la.  regToBin has by now overwritten arg1 with the bits
\* of its first call, and argi holds the field of the first subImmToBin call.
LaSecond(n, p, argi) ==
  LET arg1a == regToBin(p.arg1)
      arg1b == regToBin(arg1a)
      argia == subImmToBin(argi, 31, 16)
  IN  [n EXCEPT !.inst_type = RTYPE, !.opcode_bin = <<"0","0","1","1","0","1">>,
                !.rt = arg1b, !.rs1 = regToBin(arg1b),
                !.imm = subImmToBin(argia, 15, 0)]

(***************************************************************************)
(* Bounds of the model.                                                    *)
(***************************************************************************)
\* The number of lines of a source file.
MaxLines == 4

\* What la can find in its look-ahead buffer when fgets fails at the end of
\* the file and the buffer keeps whatever the stack held.
UnsetLine == { <<>>, << "x", " ", "y", " ", "7", "\n" >> }

(***************************************************************************)
(* State.                                                                  *)
(***************************************************************************)
VARIABLES
  pc,            \* "pass1", "pass2", "output", "done": where main is
  found_text,    \* has .text been encountered
  found_data,    \* has .data been found yet
  counter,       \* line counter
  address,       \* address counter
  instructions,  \* instruction list: head (the nodes in order) and count
  data,          \* data list
  errors,        \* error list
  hash_head,     \* the hash table
  cur,           \* instructions->cur in pass 2, as a position in the list
  errfile,       \* the .err file: written, lines
  objfile,       \* the .obj file: written, lines
  src,           \* history: the lines fgets has returned, as Catalogue indices
  defs,          \* history: the label registrations of pass 1, in order
  fn             \* a conversion function under test: name, input, output

vars == << pc, found_text, found_data, counter, address, instructions, data,
           errors, hash_head, cur, errfile, objfile, src, defs, fn >>

NoFile == [written |-> FALSE, lines |-> <<>>]

NoFn == [name |-> "none", input |-> 0, output |-> <<>>]

Init ==
  /\ pc = "pass1"
  /\ found_text = 0
  /\ found_data = 0
  /\ counter = 0
  /\ address = 0
  /\ instructions = [head |-> <<>>, count |-> 0]
  /\ data = [head |-> <<>>, count |-> 0]
  /\ errors = [head |-> <<>>, count |-> 0]
  /\ hash_head = <<>>
  /\ cur = 0
  /\ errfile = NoFile
  /\ objfile = NoFile
  /\ src = <<>>
  /\ defs = <<>>
  /\ fn = NoFn

Lines == 1..Len(Catalogue)

\* The lines of the catalogue that the files of a run are made of: the first
\* ten, or the lines that fn.input names.
BaseLines == 1..10

FileLines == IF fn.name = "main" THEN fn.input ELSE BaseLines

\* fgets returns one more line.
CanRead == pc = "pass1" /\ Len(src) < MaxLines

\* fgets returns the line l of the file.
Reads(l) == CanRead /\ l \in FileLines

InText == found_text = 1 /\ found_data = 0

InData == found_text = 1 /\ found_data = 1

(***************************************************************************)
(* Pass 1.                                                                 *)
(***************************************************************************)
\* Mutant of LabelErrors: the error gets the line before the repeated
\* definition.
LabelErrorsLineBefore(label, lineno) ==
  IF checkHash(hash_head, hashgen(label, HASH_SIZE), label).found
    THEN add_err(errors, SymbolErr(ERR_MULTSYMBOL, lineno - 1, label))
    ELSE errors

\* The registration of a label: a MultiplyDefinedSymbol error if checkHash
\* finds it, a new table entry at addr otherwise.
LabelErrors(label, lineno) ==
  IF checkHash(hash_head, hashgen(label, HASH_SIZE), label).found
    THEN add_err(errors, SymbolErr(ERR_MULTSYMBOL, lineno, label))
    ELSE errors

\* Mutant of LabelTable: the entry is added whether or not the name is found.
LabelTableAlways(label, addr) ==
  addhashnode(hash_head, hashgen(label, HASH_SIZE), label, addr)

LabelTable(label, addr) ==
  IF checkHash(hash_head, hashgen(label, HASH_SIZE), label).found
    THEN hash_head
    ELSE addhashnode(hash_head, hashgen(label, HASH_SIZE), label, addr)

LabelDef(label, addr, lineno, pos) ==
  [name |-> label, address |-> addr, lineno |-> lineno, pos |-> pos,
   first |-> ~checkHash(hash_head, hashgen(label, HASH_SIZE), label).found]

\* A line before .text: disregarded.
Preamble(l) ==
  /\ Reads(l)
  /\ found_text = 0
  /\ l \notin DotTextLines
  /\ src' = Append(src, l)
  /\ counter' = counter + 1
  /\ UNCHANGED << pc, found_text, found_data, address, instructions, data, errors,
                  hash_head, cur, errfile, objfile, defs, fn >>

\* The first line that holds .text.
TextDirective(l) ==
  /\ Reads(l)
  /\ found_text = 0
  /\ l \in DotTextLines
  /\ src' = Append(src, l)
  /\ counter' = counter + 1
  /\ found_text' = 1
  /\ UNCHANGED << pc, found_data, address, instructions, data, errors,
                  hash_head, cur, errfile, objfile, defs, fn >>

\* A line of the text section that holds .data.
DataDirective(l) ==
  /\ Reads(l)
  /\ InText
  /\ l \in DotDataLines
  /\ src' = Append(src, l)
  /\ counter' = counter + 1
  /\ found_data' = 1
  /\ UNCHANGED << pc, found_text, address, instructions, data, errors,
                  hash_head, cur, errfile, objfile, defs, fn >>

\* A blank line or a comment line, in the text or in the data section.
SkipLine(l) ==
  /\ Reads(l)
  /\ found_text = 1
  /\ found_data = 0 => l \notin DotDataLines
  /\ l \in SkippedLines
  /\ src' = Append(src, l)
  /\ counter' = counter + 1
  /\ UNCHANGED << pc, found_text, found_data, address, instructions, data, errors,
                  hash_head, cur, errfile, objfile, defs, fn >>

\* A statement of the text section reaches the opcode dispatch.
TextStatement(l) ==
  /\ Reads(l)
  /\ InText
  /\ l \notin DotDataLines
  /\ l \notin SkippedLines
  /\ TextParsed[l].defined

\* Mutant of TextLabel: the label gets the instruction count plus one.
TextLabelNextSlot(p) ==
  /\ hash_head' = IF p.hasLabel THEN LabelTable(p.label, instructions.count + 1)
                  ELSE hash_head
  /\ defs' = IF p.hasLabel
               THEN Append(defs, LabelDef(p.label, instructions.count + 1,
                                          counter + 1, Len(src) + 1))
               ELSE defs

\* The label part of a text statement (the label gets the instruction count).
TextLabel(p) ==
  /\ hash_head' = IF p.hasLabel THEN LabelTable(p.label, instructions.count)
                  ELSE hash_head
  /\ defs' = IF p.hasLabel
               THEN Append(defs, LabelDef(p.label, instructions.count,
                                          counter + 1, Len(src) + 1))
               ELSE defs

\* A statement with one of the ten opcodes: one node is appended.
TextInstruction(l) ==
  LET p == TextParsed[l]
      n == NewInst(address, counter + 1, p.opname, p.label)
  IN  /\ TextStatement(l)
      /\ p.opname \in Opcodes
      /\ p.opname \in {W_sw, W_lw} => BaseParse(p.arg2).defined
      /\ src' = Append(src, l)
      /\ counter' = counter + 1
      /\ TextLabel(p)
      /\ errors' = IF p.hasLabel THEN LabelErrors(p.label, counter + 1) ELSE errors
      /\ instructions' = add_node(instructions, Dispatch(n, p))
      /\ address' = address + 1
      /\ UNCHANGED << pc, found_text, found_data, data, cur, errfile, objfile, fn >>

\* Mutant of LaNodes: the address counter is not advanced between the two
\* nodes.
LaNodesOneSlot(p, argi) ==
  add_node(add_node(instructions,
                    LaFirst(NewInst(address, counter + 1, p.opname, p.label), p, argi)),
           LaSecond(NewInst(address, counter + 1, p.opname, p.label), p, argi))

\* The two nodes of la.
LaNodes(p, argi) ==
  add_node(add_node(instructions,
                    LaFirst(NewInst(address, counter + 1, p.opname, p.label), p, argi)),
           LaSecond(NewInst(address + 1, counter + 1, p.opname, p.label), p, argi))

\* la, with the line nxt that its own fgets reads ahead: two nodes.
TextLa(l, nxt) ==
  LET p == TextParsed[l]
  IN  /\ TextStatement(l)
      /\ Len(src) + 2 <= MaxLines
      /\ nxt \in FileLines
      /\ p.opname = W_la
      /\ src' = src \o <<l, nxt>>
      /\ counter' = counter + 1
      /\ TextLabel(p)
      /\ errors' = IF p.hasLabel THEN LabelErrors(p.label, counter + 1) ELSE errors
      /\ instructions' = LaNodes(p, AheadParse(Catalogue[nxt]))
      /\ address' = address + 2
      /\ UNCHANGED << pc, found_text, found_data, data, cur, errfile, objfile, fn >>

\* la on the last line of the file: its fgets fails and leaves the buffer
\* unset; the fgets of the line loop fails next, which ends pass 1.
TextLaAtEof(l, linen) ==
  LET p == TextParsed[l]
  IN  /\ TextStatement(l)
      /\ p.opname = W_la
      /\ src' = Append(src, l)
      /\ counter' = counter + 1
      /\ TextLabel(p)
      /\ errors' = IF p.hasLabel THEN LabelErrors(p.label, counter + 1) ELSE errors
      /\ instructions' = LaNodes(p, AheadParse(linen))
      /\ address' = address + 2
      /\ pc' = "pass2"
      /\ cur' = 1
      /\ UNCHANGED << found_text, found_data, data, errfile, objfile, fn >>

\* Mutant of IllegalOpcode: the was_error flag is not honoured, the node is
\* appended all the same.
IllegalOpcodeAppends(l) ==
  LET p  == TextParsed[l]
      e1 == IF p.hasLabel THEN LabelErrors(p.label, counter + 1) ELSE errors
  IN  /\ TextStatement(l)
      /\ p.opname \notin Opcodes
      /\ p.opname # W_la
      /\ src' = Append(src, l)
      /\ counter' = counter + 1
      /\ TextLabel(p)
      /\ errors' = add_err(e1, OpcodeErr(counter + 1, p.opname))
      /\ instructions' = add_node(instructions,
                                  NewInst(address, counter + 1, p.opname, p.label))
      /\ address' = address + 1
      /\ UNCHANGED << pc, found_text, found_data, data, cur, errfile, objfile, fn >>

\* Any other opcode: an IllegalOpcode error and no node.
IllegalOpcode(l) ==
  LET p  == TextParsed[l]
      e1 == IF p.hasLabel THEN LabelErrors(p.label, counter + 1) ELSE errors
  IN  /\ TextStatement(l)
      /\ p.opname \notin Opcodes
      /\ p.opname # W_la
      /\ src' = Append(src, l)
      /\ counter' = counter + 1
      /\ TextLabel(p)
      /\ errors' = add_err(e1, OpcodeErr(counter + 1, p.opname))
      /\ UNCHANGED << pc, found_text, found_data, address, instructions, data,
                      cur, errfile, objfile, fn >>

(***************************************************************************)
(* Pass 1, data section.                                                   *)
(***************************************************************************)
\* Mutant of addWords: the words of one directive all get the address of the
\* first.
RECURSIVE addWordsOneAddress(_, _, _, _, _, _)
addWordsOneAddress(list, addr, n, lineno, label, text) ==
  IF n > 0
    THEN addWordsOneAddress(add_datanode(list, [address |-> addr, lineno |-> lineno,
                                                label   |-> label,
                                                binval  |-> numTo32Bin(text),
                                                hex_val |-> binToHex32(numTo32Bin(text))]),
                            addr, n - 1, lineno, label, text)
    ELSE list

\* for (i = 0; i < n; i++): one data node per iteration, each at the next
\* address, holding the 32-bit conversion of text.
RECURSIVE addWords(_, _, _, _, _, _)
addWords(list, addr, n, lineno, label, text) ==
  IF n > 0
    THEN addWords(add_datanode(list, [address |-> addr, lineno |-> lineno,
                                      label   |-> label,
                                      binval  |-> numTo32Bin(text),
                                      hex_val |-> binToHex32(numTo32Bin(text))]),
                  addr + 1, n - 1, lineno, label, text)
    ELSE list

\* Mutant of WordCount: a directive that is neither .word nor .resw appends
\* one word.
WordCountOfAny(p) ==
  IF p.directive = W_word THEN (IF atoi(p.arg2) > 0 THEN atoi(p.arg2) ELSE 0)
  ELSE IF p.directive = W_resw THEN (IF atoi(p.instargs) > 0 THEN atoi(p.instargs) ELSE 0)
  ELSE 1

\* The number of words that the directive of the parse p appends, and the
\* decimal text of their value.
WordCount(p) ==
  IF p.directive = W_word THEN (IF atoi(p.arg2) > 0 THEN atoi(p.arg2) ELSE 0)
  ELSE IF p.directive = W_resw THEN (IF atoi(p.instargs) > 0 THEN atoi(p.instargs) ELSE 0)
  ELSE 0

WordText(p) == IF p.directive = W_word THEN p.arg1 ELSE <<"0">>

\* A line of the data section: its first token is registered as a label at
\* the current address, then .word and .resw append their words.
DataStatement(l) ==
  LET p == DataParsed[l]
  IN  /\ Reads(l)
      /\ InData
      /\ l \notin SkippedLines
      /\ p.defined
      /\ src' = Append(src, l)
      /\ counter' = counter + 1
      /\ hash_head' = LabelTable(p.label, address)
      /\ errors' = LabelErrors(p.label, counter + 1)
      /\ defs' = Append(defs, LabelDef(p.label, address, counter + 1, Len(src) + 1))
      /\ data' = addWords(data, address, WordCount(p), counter + 1, p.label, WordText(p))
      /\ address' = address + WordCount(p)
      /\ UNCHANGED << pc, found_text, found_data, instructions, cur, errfile,
                      objfile, fn >>

\* fgets returns NULL: the file is closed and pass 2 starts at the head.
EndOfFile ==
  /\ pc = "pass1"
  /\ pc' = "pass2"
  /\ cur' = 1
  /\ UNCHANGED << found_text, found_data, counter, address, instructions, data,
                  errors, hash_head, errfile, objfile, src, defs, fn >>

(***************************************************************************)
(* Pass 2.                                                                 *)
(***************************************************************************)
AtNode == pc = "pass2" /\ cur <= Len(instructions.head)

Node == instructions.head[cur]

\* Mutant of SetEncoding: the immediate field of the node is overwritten with
\* the low half of the word.
SetEncodingAndImm(bin) ==
  instructions' = [instructions EXCEPT
                     !.head[cur] = [Node EXCEPT !.bin_inst = bin,
                                                !.hex_inst = binToHex32(bin),
                                                !.imm = SubSeq(bin, 17, 32)]]

SetEncoding(bin) ==
  instructions' = [instructions EXCEPT
                     !.head[cur] = [Node EXCEPT !.bin_inst = bin,
                                                !.hex_inst = binToHex32(bin)]]

\* sprintf("%s%s%s%s%s000000", opcode_bin, rs1, rs2, rt, sa)
EncodeR(n) == n.opcode_bin \o n.rs1 \o n.rs2 \o n.rt \o n.sa \o Zeros(6)

\* sprintf("%s%s%s%s", opcode_bin, rs1, rt, imm)
EncodeI(n) == n.opcode_bin \o n.rs1 \o n.rt \o n.imm

\* Mutant of EncodeJ: the address found is not used, the node's own
\* immediate field is.
EncodeJ_Unresolved(n, addr) == n.opcode_bin \o n.rs1 \o n.rt \o n.imm

\* sprintf("%s%s%s%s", opcode_bin, rs1, rt, immToBin(line)), line the "%d"
\* text of the address found.
EncodeJ(n, addr) == n.opcode_bin \o n.rs1 \o n.rt \o immToBin(IntToStr(addr))

Lookup(n) == checkHash(hash_head, hashgen(n.symbol, HASH_SIZE), n.symbol)

AssembleR ==
  /\ AtNode
  /\ Node.inst_type = RTYPE
  /\ SetEncoding(EncodeR(Node))
  /\ cur' = cur + 1
  /\ UNCHANGED << pc, found_text, found_data, counter, address, data, errors,
                  hash_head, errfile, objfile, src, defs, fn >>

AssembleI ==
  /\ AtNode
  /\ Node.inst_type = ITYPE
  /\ SetEncoding(EncodeI(Node))
  /\ cur' = cur + 1
  /\ UNCHANGED << pc, found_text, found_data, counter, address, data, errors,
                  hash_head, errfile, objfile, src, defs, fn >>

AssembleJ ==
  /\ AtNode
  /\ Node.inst_type = JTYPE
  /\ Lookup(Node).found
  /\ SetEncoding(EncodeJ(Node, Lookup(Node).address))
  /\ cur' = cur + 1
  /\ UNCHANGED << pc, found_text, found_data, counter, address, data, errors,
                  hash_head, errfile, objfile, src, defs, fn >>

UndefinedJ ==
  /\ AtNode
  /\ Node.inst_type = JTYPE
  /\ ~Lookup(Node).found
  /\ errors' = add_err(errors, SymbolErr(ERR_UNDEFSYMBOL, Node.lineno, Node.symbol))
  /\ cur' = cur + 1
  /\ UNCHANGED << pc, found_text, found_data, counter, address, instructions, data,
                  hash_head, errfile, objfile, src, defs, fn >>

(***************************************************************************)
(* Output.                                                                 *)
(***************************************************************************)
RECURSIVE SourceEcho(_)
SourceEcho(k) ==
  IF k > Len(src) THEN <<>> ELSE << <<"src", k, src[k]>> >> \o SourceEcho(k + 1)

\* Mutant of LineReport: an error of the third kind gets a line as well.
RECURSIVE LineReportEveryKind(_)
LineReportEveryKind(errs) ==
  IF errs = <<>> THEN <<>>
  ELSE (IF Head(errs).errtype = ERR_OPCODE
          THEN << <<"line", Head(errs).lineno, "Illegal opcode.">> >>
        ELSE IF Head(errs).errtype = ERR_UNDEFSYMBOL
          THEN << <<"line", Head(errs).lineno, "Undefined symbol used.">> >>
        ELSE << <<"line", Head(errs).lineno, "Multiply defined symbol.">> >>)
       \o LineReportEveryKind(Tail(errs))

RECURSIVE LineReport(_)
LineReport(errs) ==
  IF errs = <<>> THEN <<>>
  ELSE (IF Head(errs).errtype = ERR_OPCODE
          THEN << <<"line", Head(errs).lineno, "Illegal opcode.">> >>
        ELSE IF Head(errs).errtype = ERR_UNDEFSYMBOL
          THEN << <<"line", Head(errs).lineno, "Undefined symbol used.">> >>
        ELSE <<>>)
       \o LineReport(Tail(errs))

RECURSIVE SymbolLines(_, _)
SymbolLines(errs, errtype) ==
  IF errs = <<>> THEN <<>>
  ELSE (IF Head(errs).errtype = errtype THEN << <<"symbol", Head(errs).symbol>> >>
        ELSE <<>>)
       \o SymbolLines(Tail(errs), errtype)

SymbolReport(errs, errtype, title) ==
  IF \E i \in 1..Len(errs) : errs[i].errtype = errtype
    THEN << <<"title", title>> >> \o SymbolLines(errs, errtype)
    ELSE <<>>

ErrorReport ==
  SourceEcho(1)
  \o << <<"blank">>, <<"title", "Errors detected:">> >>
  \o LineReport(errors.head)
  \o << <<"blank">> >>
  \o SymbolReport(errors.head, ERR_MULTSYMBOL, "Multiply defined symbol(s):")
  \o << <<"blank">> >>
  \o SymbolReport(errors.head, ERR_UNDEFSYMBOL, "Undefined symbol(s):")

RECURSIVE InstLines(_)
InstLines(nodes) ==
  IF nodes = <<>> THEN <<>>
  ELSE << <<addrToHex(Head(nodes).address), Head(nodes).hex_inst>> >>
       \o InstLines(Tail(nodes))

RECURSIVE DataLines(_)
DataLines(nodes) ==
  IF nodes = <<>> THEN <<>>
  ELSE << <<addrToHex(Head(nodes).address), Head(nodes).hex_val>> >>
       \o DataLines(Tail(nodes))

\* Mutant of ObjectListing: the data loop runs before the instruction loop.
ObjectListingDataFirst == DataLines(data.head) \o InstLines(instructions.head)

ObjectListing == InstLines(instructions.head) \o DataLines(data.head)

Assembled == pc = "pass2" /\ cur > Len(instructions.head)

WriteReport ==
  /\ Assembled
  /\ errors.count > 0
  /\ errfile' = [written |-> TRUE, lines |-> ErrorReport]
  /\ pc' = "done"
  /\ UNCHANGED << found_text, found_data, counter, address, instructions, data,
                  errors, hash_head, cur, objfile, src, defs, fn >>

WriteListing ==
  /\ Assembled
  /\ ~(errors.count > 0)
  /\ objfile' = [written |-> TRUE, lines |-> ObjectListing]
  /\ pc' = "done"
  /\ UNCHANGED << found_text, found_data, counter, address, instructions, data,
                  errors, hash_head, cur, errfile, src, defs, fn >>

(***************************************************************************)
(* The assembler.                                                          *)
(***************************************************************************)
Next ==
  \/ \E l \in Lines : Preamble(l)
  \/ \E l \in Lines : TextDirective(l)
  \/ \E l \in Lines : DataDirective(l)
  \/ \E l \in Lines : SkipLine(l)
  \/ \E l \in Lines : TextInstruction(l)
  \/ \E l \in Lines, nxt \in Lines : TextLa(l, nxt)
  \/ \E l \in Lines, linen \in UnsetLine : TextLaAtEof(l, linen)
  \/ \E l \in Lines : IllegalOpcode(l)
  \/ \E l \in Lines : DataStatement(l)
  \/ EndOfFile
  \/ AssembleR
  \/ AssembleI
  \/ AssembleJ
  \/ UndefinedJ
  \/ WriteReport
  \/ WriteListing

Spec == Init /\ [][Next]_vars

(***************************************************************************)
(* The assembler on files of instruction statements: .text, .data, add,    *)
(* nor, ori and la lines.  None of these lines is blank or a comment and   *)
(* none holds a j, so the steps left out of NextEnc are never enabled.     *)
(***************************************************************************)
EncLines == {1, 2, 4, 11, 12, 13, 14}

InitEnc ==
  /\ pc = "pass1"
  /\ found_text = 0
  /\ found_data = 0
  /\ counter = 0
  /\ address = 0
  /\ instructions = [head |-> <<>>, count |-> 0]
  /\ data = [head |-> <<>>, count |-> 0]
  /\ errors = [head |-> <<>>, count |-> 0]
  /\ hash_head = <<>>
  /\ cur = 0
  /\ errfile = NoFile
  /\ objfile = NoFile
  /\ src = <<>>
  /\ defs = <<>>
  /\ fn = [name |-> "main", input |-> EncLines, output |-> <<>>]

NextEnc ==
  \/ \E l \in Lines : Preamble(l)
  \/ \E l \in Lines : TextDirective(l)
  \/ \E l \in Lines : DataDirective(l)
  \/ \E l \in Lines : TextInstruction(l)
  \/ \E l \in Lines, nxt \in Lines : TextLa(l, nxt)
  \/ \E l \in Lines, linen \in UnsetLine : TextLaAtEof(l, linen)
  \/ \E l \in Lines : IllegalOpcode(l)
  \/ \E l \in Lines : DataStatement(l)
  \/ EndOfFile
  \/ AssembleR
  \/ AssembleI
  \/ WriteReport
  \/ WriteListing

SpecEnc == InitEnc /\ [][NextEnc]_vars

(***************************************************************************)
(* The assembler on files of .text and sll lines.  No line is blank or a   *)
(* comment, none holds .data, and every node is of the R type.             *)
(***************************************************************************)
ShiftLines == {1, 15, 16, 17}

InitShift ==
  /\ pc = "pass1"
  /\ found_text = 0
  /\ found_data = 0
  /\ counter = 0
  /\ address = 0
  /\ instructions = [head |-> <<>>, count |-> 0]
  /\ data = [head |-> <<>>, count |-> 0]
  /\ errors = [head |-> <<>>, count |-> 0]
  /\ hash_head = <<>>
  /\ cur = 0
  /\ errfile = NoFile
  /\ objfile = NoFile
  /\ src = <<>>
  /\ defs = <<>>
  /\ fn = [name |-> "main", input |-> ShiftLines, output |-> <<>>]

NextShift ==
  \/ \E l \in Lines : Preamble(l)
  \/ \E l \in Lines : TextDirective(l)
  \/ \E l \in Lines : TextInstruction(l)
  \/ \E l \in Lines : IllegalOpcode(l)
  \/ EndOfFile
  \/ AssembleR
  \/ WriteReport
  \/ WriteListing

SpecShift == InitShift /\ [][NextShift]_vars

(***************************************************************************)
(* The assembler on files with directive lines, one of them without a      *)
(* label.  None of the lines is blank or a comment, and none holds a j, an *)
(* la or an instruction of the I type.                                     *)
(***************************************************************************)
DirLines == {1, 2, 4, 6, 7, 18}

InitDir ==
  /\ pc = "pass1"
  /\ found_text = 0
  /\ found_data = 0
  /\ counter = 0
  /\ address = 0
  /\ instructions = [head |-> <<>>, count |-> 0]
  /\ data = [head |-> <<>>, count |-> 0]
  /\ errors = [head |-> <<>>, count |-> 0]
  /\ hash_head = <<>>
  /\ cur = 0
  /\ errfile = NoFile
  /\ objfile = NoFile
  /\ src = <<>>
  /\ defs = <<>>
  /\ fn = [name |-> "main", input |-> DirLines, output |-> <<>>]

NextDir ==
  \/ \E l \in Lines : Preamble(l)
  \/ \E l \in Lines : TextDirective(l)
  \/ \E l \in Lines : DataDirective(l)
  \/ \E l \in Lines : TextInstruction(l)
  \/ \E l \in Lines : IllegalOpcode(l)
  \/ \E l \in Lines : DataStatement(l)
  \/ EndOfFile
  \/ AssembleR
  \/ WriteReport
  \/ WriteListing

SpecDir == InitDir /\ [][NextDir]_vars

(***************************************************************************)
(* The assembler as a process that goes on as long as it has a step to     *)
(* take, on files that can hold a line with a label and nothing behind it. *)
(***************************************************************************)
LiveLines == {1, 2, 3, 4, 6, 8, 9, 19}

InitLive ==
  /\ pc = "pass1"
  /\ found_text = 0
  /\ found_data = 0
  /\ counter = 0
  /\ address = 0
  /\ instructions = [head |-> <<>>, count |-> 0]
  /\ data = [head |-> <<>>, count |-> 0]
  /\ errors = [head |-> <<>>, count |-> 0]
  /\ hash_head = <<>>
  /\ cur = 0
  /\ errfile = NoFile
  /\ objfile = NoFile
  /\ src = <<>>
  /\ defs = <<>>
  /\ fn = [name |-> "main", input |-> LiveLines, output |-> <<>>]

\* A text line with a colon and one token: strtok(NULL, " \t") returns NULL
\* and strcat(line, NULL) reads from address 0, in front of the registration
\* of the label.  The process is ended.
TextAborts(l) ==
  /\ Reads(l)
  /\ InText
  /\ l \notin DotDataLines
  /\ l \notin SkippedLines
  /\ TextParsed[l].hasLabel
  /\ ~TextParsed[l].defined
  /\ src' = Append(src, l)
  /\ counter' = counter + 1
  /\ pc' = "aborted"
  /\ UNCHANGED << found_text, found_data, address, instructions, data, errors,
                  hash_head, cur, errfile, objfile, defs, fn >>

NextLive ==
  \/ Next
  \/ \E l \in Lines : TextAborts(l)

\* main is one sequential process: while some step is possible, it takes one.
SpecLive == InitLive /\ [][NextLive]_vars /\ WF_vars(NextLive)

\* The same for the files of Spec, in which every line can be split.
SpecFair == Init /\ [][Next]_vars /\ WF_vars(Next)

(***************************************************************************)
(* The conversion functions on their own: fn holds the function applied,   *)
(* its input and, once applied, its output.                                *)
(***************************************************************************)
\* The n-bit two's-complement representation of v, most significant bit first.
RECURSIVE BitsOf(_, _)
BitsOf(v, n) ==
  IF n = 0 THEN <<>> ELSE BitsOf(v \div 2, n - 1) \o <<IF v % 2 = 1 THEN "1" ELSE "0">>

RECURSIVE Pow2(_)
Pow2(n) == IF n = 0 THEN 1 ELSE 2 * Pow2(n - 1)

\* The integers of the 16-bit signed range.
ImmRange == (0 - Pow2(IMMEDIATE_LEN - 2))..(Pow2(IMMEDIATE_LEN - 2) - 1)

InitImm ==
  /\ pc = "fn"
  /\ found_text = 0
  /\ found_data = 0
  /\ counter = 0
  /\ address = 0
  /\ instructions = [head |-> <<>>, count |-> 0]
  /\ data = [head |-> <<>>, count |-> 0]
  /\ errors = [head |-> <<>>, count |-> 0]
  /\ hash_head = <<>>
  /\ cur = 0
  /\ errfile = NoFile
  /\ objfile = NoFile
  /\ src = <<>>
  /\ defs = <<>>
  /\ \E v \in ImmRange : fn = [name |-> "immToBin", input |-> v, output |-> <<>>]

\* immToBin on the decimal text of the input.
ApplyImmToBin ==
  /\ pc = "fn"
  /\ fn.name = "immToBin"
  /\ fn' = [fn EXCEPT !.output = immToBin(IntToStr(fn.input))]
  /\ pc' = "done"
  /\ UNCHANGED << found_text, found_data, counter, address, instructions, data,
                  errors, hash_head, cur, errfile, objfile, src, defs >>

NextImm == ApplyImmToBin

SpecImm == InitImm /\ [][NextImm]_vars

(***************************************************************************)
(* immToBin on literals that need more than 16 bits.                       *)
(***************************************************************************)
\* The number of literals next to 2^16, on either side of 0, that are tried.
FitSpan == 64

\* The magnitude that the fill loop of immToBin starts from.
Magnitude(v) == IF v < 0 THEN 0 - v ELSE v

\* The literals tried: magnitudes from 2^16 on, positive and negative.
WideRange ==
  {v \in (0 - (Pow2(IMMEDIATE_LEN - 1) + FitSpan))..(Pow2(IMMEDIATE_LEN - 1) + FitSpan) :
     Magnitude(v) >= Pow2(IMMEDIATE_LEN - 1)}

\* The C indices outside bin that the fill loop writes to: while (dec > 0)
\* { bin[i] = ...; dec /= 2; i--; } has no test on i.
RECURSIVE fillOutside(_, _)
fillOutside(dec, i) ==
  IF dec > 0
    THEN (IF i < 0 THEN {i} ELSE {}) \cup fillOutside(dec \div 2, i - 1)
    ELSE {}

InitWide ==
  /\ pc = "fn"
  /\ found_text = 0
  /\ found_data = 0
  /\ counter = 0
  /\ address = 0
  /\ instructions = [head |-> <<>>, count |-> 0]
  /\ data = [head |-> <<>>, count |-> 0]
  /\ errors = [head |-> <<>>, count |-> 0]
  /\ hash_head = <<>>
  /\ cur = 0
  /\ errfile = NoFile
  /\ objfile = NoFile
  /\ src = <<>>
  /\ defs = <<>>
  /\ \E v \in WideRange : fn = [name |-> "immToBin", input |-> v, output |-> <<>>]

\* The write in front of bin goes unnoticed: immToBin returns the 16
\* characters of bin, the low bits of the magnitude.
WideReturns ==
  /\ pc = "fn"
  /\ fillOutside(Magnitude(fn.input), IMMEDIATE_LEN - 2) # {}
  /\ fn' = [fn EXCEPT !.output = immToBin(IntToStr(fn.input))]
  /\ pc' = "done"
  /\ UNCHANGED << found_text, found_data, counter, address, instructions, data,
                  errors, hash_head, cur, errfile, objfile, src, defs >>

\* The write in front of bin hits what the build keeps there (a stack guard,
\* a saved register): the process is ended and nothing is returned.
WideAborts ==
  /\ pc = "fn"
  /\ fillOutside(Magnitude(fn.input), IMMEDIATE_LEN - 2) # {}
  /\ pc' = "aborted"
  /\ UNCHANGED << found_text, found_data, counter, address, instructions, data,
                  errors, hash_head, cur, errfile, objfile, src, defs, fn >>

NextWide == WideReturns \/ WideAborts

SpecWide == InitWide /\ [][NextWide]_vars

(***************************************************************************)
(* hashgen and the table on names with bytes above 127: the name is        *)
(* inserted under its key, then looked up under the key computed again.    *)
(***************************************************************************)
\* The length of the longest name tried.
HashLen == 3

HashAlphabet == {"L", "M", "~", "x80", "xA9", "xFF"}

RECURSIVE NamesOfLen(_)
NamesOfLen(n) ==
  IF n = 0 THEN {<<>>}
  ELSE {Append(s, c) : s \in NamesOfLen(n - 1), c \in HashAlphabet}

HashNames == UNION {NamesOfLen(n) : n \in 1..HashLen}

InitHash ==
  /\ pc = "fn"
  /\ found_text = 0
  /\ found_data = 0
  /\ counter = 0
  /\ address = 0
  /\ instructions = [head |-> <<>>, count |-> 0]
  /\ data = [head |-> <<>>, count |-> 0]
  /\ errors = [head |-> <<>>, count |-> 0]
  /\ hash_head = <<>>
  /\ cur = 0
  /\ errfile = NoFile
  /\ objfile = NoFile
  /\ src = <<>>
  /\ defs = <<>>
  /\ \E s \in HashNames : fn = [name |-> "hashgen", input |-> s, output |-> <<>>]

\* The registration of pass 1: genkey = hashgen(label, tSize), then
\* addhashnode under genkey (at address 1).
HashInsert ==
  /\ pc = "fn"
  /\ fn.name = "hashgen"
  /\ hash_head' = addhashnode(hash_head, hashgen(fn.input, HASH_SIZE), fn.input, 1)
  /\ fn' = [fn EXCEPT !.output = <<hashgen(fn.input, HASH_SIZE)>>]
  /\ pc' = "inserted"
  /\ UNCHANGED << found_text, found_data, counter, address, instructions, data,
                  errors, cur, errfile, objfile, src, defs >>

\* The lookup of pass 2: checkHash under the key that hashgen returns now.
\* The output gets this key and what checkHash returns.
HashLookup ==
  /\ pc = "inserted"
  /\ fn' = [fn EXCEPT !.output =
              fn.output \o << hashgen(fn.input, HASH_SIZE),
                              checkHash(hash_head, hashgen(fn.input, HASH_SIZE),
                                        fn.input) >>]
  /\ pc' = "done"
  /\ UNCHANGED << found_text, found_data, counter, address, instructions, data,
                  errors, hash_head, cur, errfile, objfile, src, defs >>

NextHash == HashInsert \/ HashLookup

SpecHash == InitHash /\ [][NextHash]_vars

(***************************************************************************)
(* binToHex32 on strings of 32 characters 0 / 1: two of the eight groups   *)
(* of four take every value, the other six are all 0000 or all 1111.       *)
(***************************************************************************)
FourBits(v) == BitsOf(v, 4)

HexInput(b, i, j, x, y) ==
  LET g(k) == FourBits(IF k = i THEN x ELSE IF k = j THEN y ELSE b)
  IN  g(1) \o g(2) \o g(3) \o g(4) \o g(5) \o g(6) \o g(7) \o g(8)

HexInputs ==
  {HexInput(b, i, j, x, y) : b \in {0, 15}, i \in 1..8, j \in 1..8,
                             x \in 0..15, y \in 0..15}

InitHex ==
  /\ pc = "fn"
  /\ found_text = 0
  /\ found_data = 0
  /\ counter = 0
  /\ address = 0
  /\ instructions = [head |-> <<>>, count |-> 0]
  /\ data = [head |-> <<>>, count |-> 0]
  /\ errors = [head |-> <<>>, count |-> 0]
  /\ hash_head = <<>>
  /\ cur = 0
  /\ errfile = NoFile
  /\ objfile = NoFile
  /\ src = <<>>
  /\ defs = <<>>
  /\ \E s \in HexInputs : fn = [name |-> "binToHex32", input |-> s, output |-> <<>>]

ApplyBinToHex32 ==
  /\ pc = "fn"
  /\ fn.name = "binToHex32"
  /\ fn' = [fn EXCEPT !.output = binToHex32(fn.input)]
  /\ pc' = "done"
  /\ UNCHANGED << found_text, found_data, counter, address, instructions, data,
                  errors, hash_head, cur, errfile, objfile, src, defs >>

NextHex == ApplyBinToHex32

SpecHex == InitHex /\ [][NextHex]_vars

(***************************************************************************)
(* regToBin on register tokens.                                            *)
(***************************************************************************)
\* The largest N of the tokens $tN and $sN that are tried.
RegSpan == 40

\* Tokens that are neither $0 nor $tN nor $sN.
OtherTokens ==
  { <<>>, << "$" >>, << "5" >>, << "t", "0" >>, << "$", "1" >>, << "$", "a", "0" >>,
    << "$", "t" >>, << "$", "t", "x" >>, << "$", "s", "p" >>,
    << "$", "z", "e", "r", "o" >> }

RegTokens ==
  { << "$", "0" >> }
  \cup { << "$", "t" >> \o NatToStr(n) : n \in 0..RegSpan }
  \cup { << "$", "s" >> \o NatToStr(n) : n \in 0..RegSpan }
  \cup OtherTokens

InitReg ==
  /\ pc = "fn"
  /\ found_text = 0
  /\ found_data = 0
  /\ counter = 0
  /\ address = 0
  /\ instructions = [head |-> <<>>, count |-> 0]
  /\ data = [head |-> <<>>, count |-> 0]
  /\ errors = [head |-> <<>>, count |-> 0]
  /\ hash_head = <<>>
  /\ cur = 0
  /\ errfile = NoFile
  /\ objfile = NoFile
  /\ src = <<>>
  /\ defs = <<>>
  /\ \E t \in RegTokens : fn = [name |-> "regToBin", input |-> t, output |-> <<>>]

\* regToBin returns the five characters of bin (a write in front of bin, if
\* the fill loop makes one, goes unnoticed).
RegReturns ==
  /\ pc = "fn"
  /\ fn.name = "regToBin"
  /\ fn' = [fn EXCEPT !.output = regToBin(fn.input)]
  /\ pc' = "done"
  /\ UNCHANGED << found_text, found_data, counter, address, instructions, data,
                  errors, hash_head, cur, errfile, objfile, src, defs >>

\* The fill loop writes in front of bin and hits what the build keeps there:
\* the process is ended and nothing is returned.
RegAborts ==
  /\ pc = "fn"
  /\ fn.name = "regToBin"
  /\ fillOutside(regDec(fn.input), REGBITS - 2) # {}
  /\ pc' = "aborted"
  /\ UNCHANGED << found_text, found_data, counter, address, instructions, data,
                  errors, hash_head, cur, errfile, objfile, src, defs, fn >>

NextReg == RegReturns \/ RegAborts

SpecReg == InitReg /\ [][NextReg]_vars

(***************************************************************************)
(* subImmToBin on literals and ranges of 16 bits.  Its copy loop puts a    *)
(* character on the terminator of nbin, so that strcpy(imm, nbin) copies   *)
(* on into what lies behind nbin.                                          *)
(***************************************************************************)
\* The literals tried lie this far around 0, 2^16, -2^16 and 2^24.
SubSpan == 3

SubValues ==
  {b + d : b \in {0, Pow2(16), 0 - Pow2(16), Pow2(24)}, d \in (0 - SubSpan)..SubSpan}

\* The ranges of 16 bits: start, and end = start + 15.
SubRanges == 0..(INST_LEN - IMMEDIATE_LEN)

\* What strcpy can find behind nbin before it meets a terminator.
Overrun == { <<>>, << "?" >> }

InitSub ==
  /\ pc = "fn"
  /\ found_text = 0
  /\ found_data = 0
  /\ counter = 0
  /\ address = 0
  /\ instructions = [head |-> <<>>, count |-> 0]
  /\ data = [head |-> <<>>, count |-> 0]
  /\ errors = [head |-> <<>>, count |-> 0]
  /\ hash_head = <<>>
  /\ cur = 0
  /\ errfile = NoFile
  /\ objfile = NoFile
  /\ src = <<>>
  /\ defs = <<>>
  /\ \E v \in SubValues, s \in SubRanges :
       fn = [name |-> "subImmToBin", input |-> [v |-> v, end |-> s + 15, start |-> s],
             output |-> <<>>]

\* The character that the copy loop leaves on the terminator of nbin: the
\* last one it writes, bin[end].
subLast(imm, end, start) == decToBin(imm, INST_LEN - 1)[end + 1]

\* subImmToBin returns imm: the 16 characters of the field, the character on
\* the terminator's place and what strcpy found behind it.
SubReturns ==
  /\ pc = "fn"
  /\ fn.name = "subImmToBin"
  /\ \E tail \in Overrun :
       fn' = [fn EXCEPT !.output =
                subImmToBin(IntToStr(fn.input.v), fn.input.end, fn.input.start)
                \o << subLast(IntToStr(fn.input.v), fn.input.end, fn.input.start) >>
                \o tail]
  /\ pc' = "done"
  /\ UNCHANGED << found_text, found_data, counter, address, instructions, data,
                  errors, hash_head, cur, errfile, objfile, src, defs >>

\* strcpy runs on behind nbin to where it must not read or write: the process
\* is ended.
SubAborts ==
  /\ pc = "fn"
  /\ fn.name = "subImmToBin"
  /\ pc' = "aborted"
  /\ UNCHANGED << found_text, found_data, counter, address, instructions, data,
                  errors, hash_head, cur, errfile, objfile, src, defs, fn >>

NextSub == SubReturns \/ SubAborts

SpecSub == InitSub /\ [][NextSub]_vars

(***************************************************************************)
(* Vocabulary of the properties.                                           *)
(***************************************************************************)
Done == pc = "done"

\* Pass 2 has dealt with the k-th instruction node.
Visited(k) == (pc = "pass2" /\ k < cur) \/ pc = "done"

Nodes == 1..Len(instructions.head)

Errs == 1..Len(errors.head)

DefinedNames == {defs[i].name : i \in 1..Len(defs)}

\* The first registration of a name in pass 1.
FirstDef(name) ==
  defs[CHOOSE i \in 1..Len(defs) :
         /\ defs[i].name = name
         /\ \A j \in 1..(i - 1) : defs[j].name # name]

TwosComplement(v, n) == BitsOf(IF v < 0 THEN v + Pow2(n) ELSE v, n)

\* The errors of one kind for one line and symbol.
SymbolErrs(errtype, lineno, symbol) ==
  {i \in Errs : /\ errors.head[i].errtype = errtype
                /\ errors.head[i].lineno = lineno
                /\ errors.head[i].symbol = symbol}

ErrsOfType(list, errtype) ==
  {i \in 1..Len(list.head) : list.head[i].errtype = errtype}

\* A j node whose target some line after it defines / no line defines.
ForwardJump(k) ==
  /\ instructions.head[k].opcode_name = W_j
  /\ \E i \in 1..Len(defs) : /\ defs[i].name = instructions.head[k].symbol
                             /\ defs[i].lineno > instructions.head[k].lineno

UndefinedJump(k) ==
  /\ instructions.head[k].opcode_name = W_j
  /\ instructions.head[k].symbol \notin DefinedNames

\* C1: a j whose label is defined on a later line (text or data section) is
\* found in the symbol table by pass 2, gets no UndefinedSymbol error, and is
\* encoded as 000010, ten zero bits and the 16-bit address registered for
\* the label.
C1_ForwardJumpResolved ==
  \A k \in Nodes :
    (Visited(k) /\ ForwardJump(k)) =>
      LET n == instructions.head[k]
      IN  /\ checkHash(hash_head, hashgen(n.symbol, HASH_SIZE), n.symbol).found
          /\ SymbolErrs(ERR_UNDEFSYMBOL, n.lineno, n.symbol) = {}
          /\ n.bin_inst = <<"0","0","0","0","1","0">> \o BitsOf(0, 10)
                          \o TwosComplement(FirstDef(n.symbol).address, 16)

\* A finished run whose listing holds a j to a label first defined after it,
\* in the data section, at an address other than 0.
C1_Witness ==
  /\ Done
  /\ objfile.written
  /\ \E k \in Nodes :
       /\ ForwardJump(k)
       /\ FirstDef(instructions.head[k].symbol).lineno > instructions.head[k].lineno
       /\ FirstDef(instructions.head[k].symbol).address > Len(instructions.head) - 1

\* C2: a j whose symbol no label defines gets exactly one UndefinedSymbol
\* error in pass 2, with the node's line and the symbol's name; the node
\* stays unencoded and the run writes no object listing.
C2_UndefinedJumpReported ==
  /\ \A k \in Nodes :
       (Visited(k) /\ UndefinedJump(k)) =>
         LET n == instructions.head[k]
         IN  /\ Cardinality(SymbolErrs(ERR_UNDEFSYMBOL, n.lineno, n.symbol)) = 1
             /\ n.bin_inst = <<>>
             /\ ~objfile.written
             /\ Done => errfile.written
  /\ pc \in {"pass2", "done"} =>
       Cardinality(ErrsOfType(errors, ERR_UNDEFSYMBOL))
         = Cardinality({k \in Nodes : Visited(k) /\ UndefinedJump(k)})

\* A finished run with two undefined jumps, each reported at its own line.
C2_Witness ==
  /\ Done
  /\ Cardinality({k \in Nodes : UndefinedJump(k)}) = 2
  /\ Cardinality(ErrsOfType(errors, ERR_UNDEFSYMBOL)) = 2

\* A bne node whose target no label defines.
UndefinedBranch(k) ==
  /\ instructions.head[k].opcode_name = W_bne
  /\ instructions.head[k].symbol \notin DefinedNames

\* C3: a bne whose target symbol is defined nowhere gets an UndefinedSymbol
\* error in pass 2, as a j with an undefined target does.
C3_UndefinedBranchReported ==
  \A k \in Nodes :
    (Visited(k) /\ UndefinedBranch(k)) =>
      SymbolErrs(ERR_UNDEFSYMBOL, instructions.head[k].lineno,
                 instructions.head[k].symbol) # {}

\* C4: after pass 2 every instruction that recorded a target symbol in pass 1
\* (bne and j) and whose symbol is defined has the 16-bit encoding of the
\* symbol's address in its immediate field.
C4_DeferredTargetsEncoded ==
  Done =>
    \A k \in Nodes :
      LET n == instructions.head[k]
      IN  (n.opcode_name \in {W_bne, W_j} /\ n.symbol \in DefinedNames) =>
            /\ Len(n.bin_inst) = 32
            /\ SubSeq(n.bin_inst, 17, 32)
                 = TwosComplement(FirstDef(n.symbol).address, 16)

\* The registrations of a name in pass 1, as positions in defs.
DefsOf(name) == {i \in 1..Len(defs) : defs[i].name = name}

\* The number of entries in the symbol table.
RECURSIVE TableEntries(_)
TableEntries(head) ==
  IF head = <<>> THEN 0 ELSE Len(Head(head).head) + TableEntries(Tail(head))

\* C5: after any sequence of label definitions (text and data labels) the
\* lookup of a name returns the address of its first definition; a repeated
\* definition leaves the table as it is (one entry per name) and adds one
\* MultiplyDefinedSymbol error per repeated definition.
C5_FirstDefinitionWins ==
  /\ \A name \in DefinedNames :
       /\ checkHash(hash_head, hashgen(name, HASH_SIZE), name)
            = [found |-> TRUE, address |-> FirstDef(name).address]
       /\ Cardinality({i \in Errs : /\ errors.head[i].errtype = ERR_MULTSYMBOL
                                    /\ errors.head[i].symbol = name})
            = Cardinality(DefsOf(name)) - 1
  /\ TableEntries(hash_head) = Cardinality(DefinedNames)
  /\ Cardinality(ErrsOfType(errors, ERR_MULTSYMBOL))
       = Len(defs) - Cardinality(DefinedNames)

\* A name defined in the text section and again, at another address, in the
\* data section.
C5_Witness ==
  \E i, j \in 1..Len(defs) :
    /\ i < j
    /\ defs[i].name = defs[j].name
    /\ defs[i].address # defs[j].address
    /\ found_data = 1

\* C6 as the specification states it: the MultiplyDefinedSymbol error of a
\* repeated definition carries the source line of the label's first
\* definition.
C6_ErrorAtOriginalLine ==
  \A i \in Errs :
    errors.head[i].errtype = ERR_MULTSYMBOL =>
      errors.head[i].lineno = FirstDef(errors.head[i].symbol).lineno

\* C6, amended: the MultiplyDefinedSymbol error of a repeated definition
\* carries the value of the line counter at the repeated definition, a line
\* after the first definition's; each repeated definition has its error.
C6_ErrorAtRepeatedLine ==
  /\ \A i \in Errs :
       errors.head[i].errtype = ERR_MULTSYMBOL =>
         /\ errors.head[i].lineno > FirstDef(errors.head[i].symbol).lineno
         /\ \E d \in 1..Len(defs) : /\ ~defs[d].first
                                    /\ defs[d].name = errors.head[i].symbol
                                    /\ defs[d].lineno = errors.head[i].lineno
  /\ \A d \in 1..Len(defs) :
       ~defs[d].first =>
         Cardinality(SymbolErrs(ERR_MULTSYMBOL, defs[d].lineno, defs[d].name)) = 1

\* A label defined a second time two lines after its first definition.
C6_Witness ==
  \E i \in Errs :
    /\ errors.head[i].errtype = ERR_MULTSYMBOL
    /\ errors.head[i].lineno = FirstDef(errors.head[i].symbol).lineno + 2

\* C7: at the end of a run exactly one output is written: the error report
\* if the error list holds an error of any kind, the object listing if it is
\* empty; no object listing is written in a run with an error.
C7_OneOutput ==
  /\ Done => /\ errfile.written # objfile.written
             /\ errfile.written <=> errors.head # <<>>
  /\ objfile.written => errors.head = <<>> /\ objfile.lines = ObjectListing
  /\ ~Done => ~errfile.written /\ ~objfile.written

\* A finished run whose only errors are MultiplyDefinedSymbol errors.
C7_Witness ==
  /\ Done
  /\ errors.head # <<>>
  /\ \A i \in Errs : errors.head[i].errtype = ERR_MULTSYMBOL
  /\ instructions.head # <<>>

\* The lines that reach the opcode dispatch of the text section with an
\* opcode that is none of add, nor, sll, addi, ori, lui, sw, lw, bne, j, la.
IllegalLines ==
  {l \in Lines : /\ l \notin DotDataLines
                 /\ l \notin SkippedLines
                 /\ TextParsed[l].opname \notin (Opcodes \cup {W_la})}

\* C8: a text statement with an opcode outside the table adds exactly one
\* IllegalOpcode error with the current line, appends no node, leaves the
\* address counter and the instruction count as they are, and the line loop
\* goes on in the text section.
C8_IllegalOpcode ==
  [][ \A l \in IllegalLines :
        (pc = "pass1" /\ InText /\ src' = Append(src, l)) =>
          /\ Cardinality(ErrsOfType(errors', ERR_OPCODE))
               = Cardinality(ErrsOfType(errors, ERR_OPCODE)) + 1
          /\ Cardinality({i \in ErrsOfType(errors', ERR_OPCODE) :
                            /\ errors'.head[i].lineno = counter'
                            /\ errors'.head[i].opcode = TextParsed[l].opname})
               = 1
          /\ counter' = counter + 1
          /\ instructions' = instructions
          /\ address' = address
          /\ data' = data
          /\ pc' = "pass1" /\ found_text' = 1 /\ found_data' = 0
    ]_vars

\* An illegal opcode between two instructions: the second one is appended at
\* the address after the first.
C8_Witness ==
  /\ pc = "pass1"
  /\ Len(instructions.head) = 2
  /\ \E i \in Errs : /\ errors.head[i].errtype = ERR_OPCODE
                     /\ instructions.head[1].lineno < errors.head[i].lineno
                     /\ errors.head[i].lineno < instructions.head[2].lineno
  /\ instructions.head[2].address = 1

\* The error list new is the list old with one error, or the two errors of
\* one statement (its repeated label, then its opcode), put in behind every
\* error of old with that line or a smaller one.
InsertedInOrder(old, new) ==
  \E k \in 0..Len(old), m \in 1..2 :
    /\ Len(new) = Len(old) + m
    /\ SubSeq(new, 1, k) = SubSeq(old, 1, k)
    /\ SubSeq(new, k + m + 1, Len(new)) = SubSeq(old, k + 1, Len(old))
    /\ \A x \in (k + 1)..(k + m) : new[x].lineno = new[k + 1].lineno
    /\ m = 2 => /\ new[k + 1].errtype = ERR_MULTSYMBOL
                /\ new[k + 2].errtype = ERR_OPCODE
    /\ \A i \in 1..k : old[i].lineno <= new[k + 1].lineno
    /\ \A i \in (k + 1)..Len(old) : old[i].lineno > new[k + 1].lineno

Sorted(list) ==
  \A i, j \in 1..Len(list) : i < j => list[i].lineno <= list[j].lineno

\* C9: after every add_err call, whatever the order of the insertions, the
\* error list is sorted by ascending line number, and an error whose line
\* equals that of errors in the list is behind all of them.
C9_LedgerOrder ==
  [][ errors' # errors =>
        /\ InsertedInOrder(errors.head, errors'.head)
        /\ Sorted(errors'.head)
        /\ errors'.count = Len(errors'.head)
    ]_vars

\* Pass 2 has put an UndefinedSymbol error in front of an error of a later
\* line and another behind a pass 1 error of its own line.
C9_Witness ==
  \E i, j \in Errs :
    /\ i + 1 < j
    /\ errors.head[i].errtype = ERR_UNDEFSYMBOL
    /\ errors.head[i + 1].errtype # ERR_UNDEFSYMBOL
    /\ errors.head[i + 1].lineno > errors.head[i].lineno
    /\ errors.head[j].errtype = ERR_UNDEFSYMBOL
    /\ errors.head[j - 1].errtype # ERR_UNDEFSYMBOL
    /\ errors.head[j - 1].lineno = errors.head[j].lineno

\* C10: for every v of the 16-bit signed range, immToBin on the decimal text
\* of v returns the 16-bit two's-complement representation of v.
C10_ImmToBinTwosComplement ==
  (pc = "done" /\ fn.name = "immToBin") =>
    fn.output = TwosComplement(fn.input, IMMEDIATE_LEN - 1)

\* C11: an immediate literal whose magnitude does not fit the 16-bit field is
\* rejected with an error: after the conversion the error list holds an
\* error, no field was produced from the literal, and nothing was written
\* outside the field.  (The data-word half of the claim is the same loop in
\* numTo32Bin; the 16-bit half is what is stated here.)
C11_OversizeRejected ==
  (pc \in {"done", "aborted"} /\ fn.name = "immToBin"
     /\ Magnitude(fn.input) >= Pow2(IMMEDIATE_LEN - 1)) =>
    /\ errors.head # <<>>
    /\ fn.output = <<>>
    /\ fillOutside(Magnitude(fn.input), IMMEDIATE_LEN - 2) = {}

\* The words of a statement as it is written: separated by blanks, tabs and
\* commas.
RECURSIVE Words(_)
Words(s) ==
  LET t == strtok(s, {" ", "\t", ","})
  IN  IF t.ok THEN <<t.tok>> \o Words(t.rest) ELSE <<>>

HasLabel(l) ==
  LET w == Words(Cleaned(Catalogue[l]))
  IN  w # <<>> /\ w[1][Len(w[1])] = ":"

\* The label of a written statement (without its colon), its opcode name and
\* its k-th operand.
LabelOf(l) ==
  LET w == Words(Cleaned(Catalogue[l])) IN SubSeq(w[1], 1, Len(w[1]) - 1)

Statement(l) ==
  LET w == Words(Cleaned(Catalogue[l])) IN IF HasLabel(l) THEN Tail(w) ELSE w

OpName(l) == IF Statement(l) = <<>> THEN <<>> ELSE Statement(l)[1]

Operand(l, k) == IF Len(Statement(l)) > k THEN Statement(l)[k + 1] ELSE <<>>

\* The register number of a register token: $0 is 0, $tN is N + 8, $sN is
\* N + 16, anything else 0; and its 5-bit field.
RegNumber(tok) ==
  IF Len(tok) >= 3 /\ tok[1] = "$" /\ tok[2] = "t" THEN atoi(SubSeq(tok, 3, Len(tok))) + 8
  ELSE IF Len(tok) >= 3 /\ tok[1] = "$" /\ tok[2] = "s" THEN atoi(SubSeq(tok, 3, Len(tok))) + 16
  ELSE 0

RegField(tok) == BitsOf(RegNumber(tok), 5)

\* The step in which the line loop takes line l as a statement of the text
\* section.
StatementRead(l) ==
  /\ pc = "pass1"
  /\ InText
  /\ Len(src') > Len(src)
  /\ src'[Len(src) + 1] = l

\* The step in which pass 2 deals with a node of one of the opcodes ops.
Encodes(ops) ==
  /\ pc = "pass2"
  /\ cur' = cur + 1
  /\ cur <= Len(instructions.head)
  /\ instructions.head[cur].opcode_name \in ops

\* C12: every add / nor statement, add $t0, $s1, $s2 with its blanks behind
\* the commas among them, yields a node with rt, rs1 and rs2 from its first,
\* second and third operand, and pass 2 encodes it as opcode, rs1, rs2, rt,
\* 00000, 000000.
C12_AddNorEncoding ==
  [][ /\ \A l \in Lines :
           (StatementRead(l) /\ OpName(l) \in {W_add, W_nor}) =>
             /\ Len(instructions'.head) = Len(instructions.head) + 1
             /\ LET n == instructions'.head[Len(instructions'.head)]
                IN  /\ n.opcode_bin = (IF OpName(l) = W_add
                                         THEN <<"1","0","0","0","0","0">>
                                         ELSE <<"1","0","0","1","1","1">>)
                    /\ n.rt = RegField(Operand(l, 1))
                    /\ n.rs1 = RegField(Operand(l, 2))
                    /\ n.rs2 = RegField(Operand(l, 3))
      /\ Encodes({W_add, W_nor}) =>
           instructions'.head[cur].bin_inst
             = Node.opcode_bin \o Node.rs1 \o Node.rs2 \o Node.rt
               \o BitsOf(0, 5) \o BitsOf(0, 6)
    ]_vars

\* C13: an ori statement is an I-format instruction: its node has rt and rs1
\* from its first and second operand and the 16-bit two's complement of its
\* third, and pass 2 encodes it as 001101, rs1, rt, immediate.
C13_OriIFormat ==
  [][ /\ \A l \in Lines :
           (StatementRead(l) /\ OpName(l) = W_ori) =>
             /\ Len(instructions'.head) = Len(instructions.head) + 1
             /\ LET n == instructions'.head[Len(instructions'.head)]
                IN  /\ n.opcode_bin = <<"0","0","1","1","0","1">>
                    /\ n.rt = RegField(Operand(l, 1))
                    /\ n.rs1 = RegField(Operand(l, 2))
                    /\ n.imm = TwosComplement(atoi(Operand(l, 3)), 16)
      /\ Encodes({W_ori}) =>
           instructions'.head[cur].bin_inst
             = <<"0","0","1","1","0","1">> \o Node.rs1 \o Node.rt \o Node.imm
    ]_vars

\* C14: an la statement appends exactly two nodes, at the address a of the
\* address counter and at a + 1, both with the line number of the la
\* statement, and advances the address counter by 2; a label on the la line,
\* if the name is new, resolves to a.
C14_LaTwoNodes ==
  [][ \A l \in Lines :
        (StatementRead(l) /\ OpName(l) = W_la) =>
          LET k == Len(instructions.head)
          IN  /\ Len(instructions'.head) = k + 2
              /\ instructions'.count = instructions.count + 2
              /\ SubSeq(instructions'.head, 1, k) = instructions.head
              /\ instructions'.head[k + 1].address = address
              /\ instructions'.head[k + 2].address = address + 1
              /\ instructions'.head[k + 1].lineno = counter'
              /\ instructions'.head[k + 2].lineno = counter'
              /\ counter' = counter + 1
              /\ address' = address + 2
              /\ (HasLabel(l) /\ LabelOf(l) \notin DefinedNames) =>
                   checkHash(hash_head', hashgen(LabelOf(l), HASH_SIZE), LabelOf(l))
                     = [found |-> TRUE, address |-> address]
    ]_vars

\* A labelled la behind another instruction: its two nodes are at addresses
\* 1 and 2 and the label is in the table with address 1.
C14_Witness ==
  /\ Len(instructions.head) >= 3
  /\ instructions.head[1].opcode_name # W_la
  /\ instructions.head[2].opcode_name = W_la
  /\ instructions.head[3].opcode_name = W_la
  /\ instructions.head[2].label # <<>>
  /\ instructions.head[2].label = instructions.head[3].label
  /\ instructions.head[3].address = 2
  /\ checkHash(hash_head, hashgen(instructions.head[2].label, HASH_SIZE),
               instructions.head[2].label) = [found |-> TRUE, address |-> 1]

\* The words of a line separated by white space only.
RECURSIVE WhiteWords(_)
WhiteWords(s) ==
  LET t == strtok(s, {" ", "\t", "\n"})
  IN  IF t.ok THEN <<t.tok>> \o WhiteWords(t.rest) ELSE <<>>

\* The literal that the third white-space separated word of a line states
\* (0 if the line has no third word).
ThirdWordLiteral(l) ==
  LET w == WhiteWords(Catalogue[l]) IN IF Len(w) >= 3 THEN atoi(w[3]) ELSE 0

\* C15: the two nodes of la are I-format; the first is 001111, 00000, reg and
\* bits 31..16 of the literal of the next line, the second is 001101, reg,
\* reg and bits 15..0 of that literal.
C15_LaEncoding ==
  [][ /\ \A l \in Lines :
           (StatementRead(l) /\ OpName(l) = W_la /\ Len(src') = Len(src) + 2) =>
             LET k    == Len(instructions.head)
                 bits == BitsOf(ThirdWordLiteral(src'[Len(src) + 2]), 32)
                 reg  == RegField(Operand(l, 1))
             IN  /\ Len(instructions'.head) = k + 2
                 /\ LET a == instructions'.head[k + 1]
                        b == instructions'.head[k + 2]
                    IN  /\ a.inst_type = ITYPE
                        /\ a.opcode_bin = <<"0","0","1","1","1","1">>
                        /\ a.rs1 = BitsOf(0, 5)
                        /\ a.rt = reg
                        /\ a.imm = SubSeq(bits, 1, 16)
                        /\ b.inst_type = ITYPE
                        /\ b.opcode_bin = <<"0","0","1","1","0","1">>
                        /\ b.rs1 = reg
                        /\ b.rt = reg
                        /\ b.imm = SubSeq(bits, 17, 32)
      /\ Encodes({W_la}) =>
           instructions'.head[cur].bin_inst
             = Node.opcode_bin \o Node.rs1 \o Node.rt \o Node.imm
    ]_vars

\* The lines that a step of the line loop takes from the file.
LinesTaken == {src'[i] : i \in (Len(src) + 1)..Len(src')}

\* C16: the line loop only moves forward through Preamble, Text and Data: a
\* line before the first .text line changes no list and no table; a .data
\* line taken in the Text phase moves the run to the Data phase, also when it
\* is taken right behind an la statement; in the Data phase no instruction
\* is appended and the phase stays.
C16_ForwardPhases ==
  [][ /\ (pc = "pass1" /\ found_text = 0 /\ Len(src') > Len(src)
            /\ ~strstr(Catalogue[src'[Len(src) + 1]], W_text)) =>
           /\ UNCHANGED << instructions, data, errors, hash_head, address >>
           /\ found_text' = 0 /\ found_data' = 0
      /\ found_text = 1 => found_text' = 1
      /\ (pc = "pass1" /\ InText
            /\ \E l \in LinesTaken : strstr(Catalogue[l], W_data)) =>
           found_data' = 1
      /\ found_data = 1 =>
           /\ found_data' = 1
           /\ Len(instructions'.head) = Len(instructions.head)
           /\ instructions'.count = instructions.count
    ]_vars

\* The directive line l of the data section as it is written: label,
\* directive, arguments.
IsWordLine(l) ==
  LET w == WhiteWords(Cleaned(Catalogue[l]))
  IN  Len(w) = 3 /\ w[2] = W_word /\ strchr(w[3], ":")

IsReswLine(l) ==
  LET w == WhiteWords(Cleaned(Catalogue[l])) IN Len(w) = 3 /\ w[2] = W_resw

\* The value and the count that a .word or .resw line states.
StatedValue(l) ==
  IF IsWordLine(l) THEN atoi(WhiteWords(Cleaned(Catalogue[l]))[3]) ELSE 0

StatedCount(l) ==
  LET arg == WhiteWords(Cleaned(Catalogue[l]))[3]
  IN  IF IsWordLine(l) THEN atoi(strtok(arg, {":"}).rest) ELSE atoi(arg)

C18_HashStable ==
  fn.name = "hashgen" =>
    /\ pc \in {"inserted", "done"} => fn.output[1] \in 0..(HASH_SIZE - 1)
    /\ pc = "inserted" =>
         \E i \in 1..Len(hash_head) :
           /\ hash_head[i].key = fn.output[1]
           /\ hash_head[i].head = << [value |-> fn.input, address |-> 1] >>
    /\ pc = "done" =>
         /\ fn.output[2] = fn.output[1]
         /\ fn.output[3] = [found |-> TRUE, address |-> 1]

\* A name of three bytes that starts with a byte of negative value has been
\* inserted and found again.
C18_Witness ==
  /\ fn.name = "hashgen"
  /\ pc = "done"
  /\ Len(fn.input) = 3
  /\ Ord(fn.input[1]) < 0
  /\ Ord(fn.input[3]) < 0
  /\ fn.output[3].found

\* The value of four characters 0 / 1, the first the most significant.
GroupValue(sub) ==
  8 * (IF sub[1] = "1" THEN 1 ELSE 0) + 4 * (IF sub[2] = "1" THEN 1 ELSE 0)
  + 2 * (IF sub[3] = "1" THEN 1 ELSE 0) + (IF sub[4] = "1" THEN 1 ELSE 0)

UpperHex ==
  << "0", "1", "2", "3", "4", "5", "6", "7", "8", "9", "A", "B", "C", "D", "E", "F" >>

\* C19: binToHex32 of a string of 32 characters 0 / 1 is exactly 8 hex
\* digits, the k-th the upper-case digit of the value of the k-th group of
\* four bits from the most significant end.
C19_BinToHex32 ==
  (pc = "done" /\ fn.name = "binToHex32") =>
    /\ Len(fn.output) = 8
    /\ \A k \in 1..8 :
         fn.output[k] = UpperHex[GroupValue(SubSeq(fn.input, 4 * k - 3, 4 * k)) + 1]

\* The string 1111 1010 1111 ... 0101 1111 has been converted.
C19_Witness ==
  /\ pc = "done"
  /\ fn.name = "binToHex32"
  /\ fn.output = << "F", "A", "F", "F", "F", "F", "5", "F" >>

\* The lines of an error report with one of the tags.
LinesTagged(lines, tags) == SelectSeq(lines, LAMBDA x : x[1] \in tags)

ErrsOfKinds(kinds) == SelectSeq(errors.head, LAMBDA e : e.errtype \in kinds)

\* The report has the title line title if and only if the error list holds
\* an error of the kind errtype, and right behind the title one name line for
\* each of them, in the order of the list.
NamesSection(lines, title, errtype) ==
  LET es == ErrsOfKinds({errtype})
      ps == {p \in 1..Len(lines) : lines[p] = <<"title", title>>}
  IN  /\ (ps # {}) <=> (es # <<>>)
      /\ Cardinality(ps) <= 1
      /\ \A p \in ps :
           /\ Len(lines) >= p + Len(es)
           /\ \A i \in 1..Len(es) : lines[p + i] = <<"symbol", es[i].symbol>>
           /\ Len(lines) > p + Len(es) => lines[p + Len(es) + 1][1] # "symbol"

\* C20: the per-line section of the error report has, in the order of the
\* error list, one line for each IllegalOpcode and each UndefinedSymbol error
\* and none for a MultiplyDefinedSymbol error; each of the two symbol titles
\* is written if and only if an error of its kind exists, and is followed by
\* one name line per such error.
C20_ErrorReport ==
  errfile.written =>
    LET ll == LinesTagged(errfile.lines, {"line"})
        es == ErrsOfKinds({ERR_OPCODE, ERR_UNDEFSYMBOL})
    IN  /\ Len(ll) = Len(es)
        /\ \A i \in 1..Len(es) :
             ll[i] = << "line", es[i].lineno,
                        IF es[i].errtype = ERR_OPCODE THEN "Illegal opcode."
                        ELSE "Undefined symbol used." >>
        /\ NamesSection(errfile.lines, "Multiply defined symbol(s):", ERR_MULTSYMBOL)
        /\ NamesSection(errfile.lines, "Undefined symbol(s):", ERR_UNDEFSYMBOL)
        /\ Len(LinesTagged(errfile.lines, {"symbol"}))
             = Len(ErrsOfKinds({ERR_MULTSYMBOL, ERR_UNDEFSYMBOL}))

\* A report on errors of all three kinds.
C20_Witness ==
  /\ errfile.written
  /\ ErrsOfKinds({ERR_OPCODE}) # <<>>
  /\ ErrsOfKinds({ERR_MULTSYMBOL}) # <<>>
  /\ Len(ErrsOfKinds({ERR_UNDEFSYMBOL})) = 2

\* The four hex digits of a small address as the listing shows them.
ListedAddress(a) == << "0", "0", "0", UpperHex[a + 1] >>

\* C21: the address counter equals the number of instruction nodes plus the
\* number of data words appended so far, the i-th instruction node (from 0)
\* has address i, and the object listing has one line per instruction and
\* then one line per data word, with the addresses 0, 1, 2, ... in this
\* order.
C21_AddressCounter ==
  /\ address = Len(instructions.head) + Len(data.head)
  /\ instructions.count = Len(instructions.head)
  /\ \A i \in Nodes : instructions.head[i].address = i - 1
  /\ objfile.written =>
       LET ni == Len(instructions.head)
           nd == Len(data.head)
       IN  /\ Len(objfile.lines) = ni + nd
           /\ \A i \in 1..(ni + nd) : objfile.lines[i][1] = ListedAddress(i - 1)
           /\ \A i \in 1..ni : objfile.lines[i][2] = instructions.head[i].hex_inst
           /\ \A i \in 1..nd : objfile.lines[ni + i][2] = data.head[i].hex_val

\* A listing of one instruction and two data words.
C21_Witness ==
  /\ objfile.written
  /\ Len(instructions.head) = 1
  /\ Len(data.head) = 2
  /\ objfile.lines[3][1] = << "0", "0", "0", "2" >>

\* A string of digits.
IsNumeral(s) == s # <<>> /\ \A i \in 1..Len(s) : isdigit(s[i])

\* The register number that a token names: $0 is 0, $tN is N + 8 and $sN is
\* N + 16 for a number N, and any other token is 0.
NamedRegister(tok) ==
  IF Len(tok) >= 3 /\ tok[1] = "$" /\ tok[2] = "t" /\ IsNumeral(SubSeq(tok, 3, Len(tok)))
    THEN DigitsValue(SubSeq(tok, 3, Len(tok)), 0) + 8
  ELSE IF Len(tok) >= 3 /\ tok[1] = "$" /\ tok[2] = "s" /\ IsNumeral(SubSeq(tok, 3, Len(tok)))
    THEN DigitsValue(SubSeq(tok, 3, Len(tok)), 0) + 16
  ELSE 0

\* C22: regToBin decodes every token to a 5-bit field with a value in 0..31:
\* $0 to 0, $tN to N + 8, $sN to N + 16 and any other token to 00000; it
\* raises no error (and writes nowhere but into the field).
C22_RegisterDecode ==
  (fn.name = "regToBin" /\ pc \in {"done", "aborted"}) =>
    /\ pc = "done"
    /\ NamedRegister(fn.input) \in 0..31
    /\ fn.output = BitsOf(NamedRegister(fn.input), 5)
    /\ errors.head = <<>>

\* The same on the tokens $0, $t0 .. $t9, $s0 .. $s7 and the tokens that do
\* not start with $t or $s.
NamedRegistersDecoded ==
  (fn.name = "regToBin" /\ pc \in {"done", "aborted"}
     /\ NamedRegister(fn.input) \in 0..31
     /\ ~(Len(fn.input) >= 2 /\ fn.input[1] = "$" /\ fn.input[2] \in {"t", "s"}
          /\ ~IsNumeral(SubSeq(fn.input, 3, Len(fn.input))))) =>
    /\ pc = "done"
    /\ fn.output = BitsOf(NamedRegister(fn.input), 5)
    /\ errors.head = <<>>

\* C23: for sll rt, rs1, k with k a decimal literal of 0..31, the shift field
\* of the encoded word, its bits 21..25 from the most significant end, is
\* the 5-bit binary value of k.  (No la is in these files, so that the line
\* number of a node is the place of its line in the source.)
C23_SllShiftField ==
  \A k \in Nodes :
    (Visited(k) /\ instructions.head[k].opcode_name = W_sll) =>
      LET n == instructions.head[k]
          l == src[n.lineno]
      IN  /\ OpName(l) = W_sll
          /\ Len(n.bin_inst) = 32
          /\ SubSeq(n.bin_inst, 22, 26) = BitsOf(atoi(Operand(l, 3)), 5)

\* The errors of the list new that the list old does not hold.
AddedErrors(old, new) ==
  {new[i] : i \in 1..Len(new)} \ {old[i] : i \in 1..Len(old)}

\* C24: the line number of every instruction node and of every error is the
\* place, counted from 1, of the line in the source that it comes from, also
\* behind an la statement, which takes the line after it along: a step of
\* pass 1 gives the nodes and errors it adds the place of the line it takes,
\* and an error of pass 2 has the line number of its node.
C24_LineNumbers ==
  [][ /\ (pc = "pass1" /\ Len(src') > Len(src)) =>
           /\ \A i \in (Len(instructions.head) + 1)..Len(instructions'.head) :
                instructions'.head[i].lineno = Len(src) + 1
           /\ \A e \in AddedErrors(errors.head, errors'.head) :
                e.lineno = Len(src) + 1
      /\ (pc = "pass2" /\ cur <= Len(instructions.head)) =>
           \A e \in AddedErrors(errors.head, errors'.head) : e.lineno = Node.lineno
    ]_vars

\* No la statement has been taken.
NoLaTaken == \A i \in 1..Len(src) : OpName(src[i]) # W_la

\* The same in the sources without an la statement.
LineNumbersWithoutLa ==
  [][ NoLaTaken =>
        /\ (pc = "pass1" /\ Len(src') > Len(src)) =>
             /\ \A i \in (Len(instructions.head) + 1)..Len(instructions'.head) :
                  instructions'.head[i].lineno = Len(src) + 1
             /\ \A e \in AddedErrors(errors.head, errors'.head) :
                  e.lineno = Len(src) + 1
        /\ (pc = "pass2" /\ cur <= Len(instructions.head)) =>
             \A e \in AddedErrors(errors.head, errors'.head) : e.lineno = Node.lineno
    ]_vars

\* The list old is what is left of the list new when some of its elements
\* are taken away.
RECURSIVE Subsequence(_, _)
Subsequence(old, new) ==
  IF old = <<>> THEN TRUE
  ELSE IF new = <<>> THEN FALSE
  ELSE IF Head(old) = Head(new) THEN Subsequence(Tail(old), Tail(new))
  ELSE Subsequence(old, Tail(new))

DataLineRead(l) ==
  /\ pc = "pass1"
  /\ InData
  /\ Len(src') > Len(src)
  /\ src'[Len(src) + 1] = l

\* The line is a directive line with a label in front / without a label.
LabelledDirective(l) ==
  LET w == WhiteWords(Cleaned(Catalogue[l]))
  IN  Len(w) >= 2 /\ w[1][Len(w[1])] = ":" /\ w[2] \in {W_word, W_resw}

BareDirective(l) ==
  LET w == WhiteWords(Cleaned(Catalogue[l]))
  IN  Len(w) >= 1 /\ w[1] \in {W_word, W_resw}

\* The label of a directive line is in the table, for a new name at the
\* value of the address counter before the line's words are appended, the
\* address of the first of them.
LabelAtFirstWord(l) ==
  LET w    == WhiteWords(Cleaned(Catalogue[l]))
      name == SubSeq(w[1], 1, Len(w[1]) - 1)
      old  == checkHash(hash_head, hashgen(name, HASH_SIZE), name)
      new  == checkHash(hash_head', hashgen(name, HASH_SIZE), name)
  IN  /\ new.found
      /\ ~old.found => new.address = address
      /\ old.found => new = old
      /\ Len(data'.head) > Len(data.head) =>
           data'.head[Len(data.head) + 1].address = address

\* C26: a directive line of the data section registers its label, without
\* the colon, at the address of the first data word that the line appends,
\* the value of the address counter before the expansion; a directive line
\* without a label registers no symbol.
C26_DataLabels ==
  [][ \A l \in Lines :
        /\ (DataLineRead(l) /\ LabelledDirective(l)) => LabelAtFirstWord(l)
        /\ (DataLineRead(l) /\ BareDirective(l)) =>
             /\ hash_head' = hash_head
             /\ errors' = errors
    ]_vars

\* The labelled half of it.
LabelledDataLabels ==
  [][ \A l \in Lines :
        (DataLineRead(l) /\ LabelledDirective(l)) => LabelAtFirstWord(l)
    ]_vars

\* C27: for a value v and a range with high_bit - low_bit = 15,
\* subImmToBin(v, high_bit, low_bit) returns a field of 16 characters, the
\* bits low_bit .. high_bit of the 32-bit two's complement of v (bit 0 the
\* least significant); (31,16) gives the upper and (15,0) the lower half.
C27_SubImmToBin ==
  (fn.name = "subImmToBin" /\ pc \in {"done", "aborted"}) =>
    /\ pc = "done"
    /\ Len(fn.output) = IMMEDIATE_LEN - 1
    /\ fn.output = SubSeq(BitsOf(fn.input.v, 32),
                          32 - fn.input.end, 32 - fn.input.start)

\* The registrations of pass 1 that come from a text statement with an
\* illegal opcode: the error list holds an IllegalOpcode error of their line.
IllegalLabelDefs ==
  {i \in 1..Len(defs) :
     \E j \in Errs : /\ errors.head[j].errtype = ERR_OPCODE
                     /\ errors.head[j].lineno = defs[i].lineno}

\* The instruction nodes appended after the line with the number lineno.
NodesAfter(lineno) == {k \in Nodes : instructions.head[k].lineno > lineno}

\* C28: the label of a text statement with an illegal opcode stays in the
\* symbol table, and a name that it defines first resolves to the address
\* of the next instruction appended after that line, or to the address of
\* the first data word if no instruction follows.
C28_LabelOfIllegalLine ==
  \A i \in IllegalLabelDefs :
    LET name == defs[i].name
        t    == checkHash(hash_head, hashgen(name, HASH_SIZE), name)
        after == NodesAfter(defs[i].lineno)
    IN  /\ t.found
        /\ (defs[i].first /\ after # {}) =>
             t.address = instructions.head[CHOOSE k \in after :
                                             \A m \in after : k <= m].address
        /\ (defs[i].first /\ after = {} /\ data.head # <<>>) =>
             t.address = data.head[1].address

\* A label first defined on a line with an illegal opcode, between two
\* instructions: it resolves to the address 1 of the second.
C28_Witness ==
  \E i \in IllegalLabelDefs :
    /\ defs[i].first
    /\ NodesAfter(defs[i].lineno) # {}
    /\ Nodes \ NodesAfter(defs[i].lineno) # {}
    /\ checkHash(hash_head, hashgen(defs[i].name, HASH_SIZE), defs[i].name)
         = [found |-> TRUE, address |-> 1]

\* The second blank-separated token of the line is neither .word nor .resw.
NoDirective(l) ==
  LET w == WhiteWords(Cleaned(Catalogue[l]))
  IN  Len(w) >= 1 /\ (Len(w) >= 2 => w[2] \notin {W_word, W_resw})

\* The first token of the line, without a colon at its end.
FirstToken(l) ==
  LET w == WhiteWords(Cleaned(Catalogue[l]))
  IN  IF w[1][Len(w[1])] = ":" THEN SubSeq(w[1], 1, Len(w[1]) - 1) ELSE w[1]

\* C29: a line of the data section whose second token is neither .word nor
\* .resw appends no data word and no instruction, adds no IllegalOpcode
\* error and leaves the address counter as it is; all it does is to register
\* its first token as a symbol at the address counter, or, if the name is in
\* the table, to report it as multiply defined.
C29_UnknownDirective ==
  [][ \A l \in Lines :
        (DataLineRead(l) /\ l \notin SkippedLines /\ NoDirective(l)) =>
          LET name == FirstToken(l)
              old  == checkHash(hash_head, hashgen(name, HASH_SIZE), name)
          IN  /\ data' = data
              /\ instructions' = instructions
              /\ address' = address
              /\ pc' = pc /\ found_data' = found_data
              /\ ErrsOfType(errors', ERR_OPCODE) = ErrsOfType(errors, ERR_OPCODE)
              /\ old.found =>
                   /\ hash_head' = hash_head
                   /\ AddedErrors(errors.head, errors'.head)
                        = {[errtype |-> ERR_MULTSYMBOL, lineno |-> counter',
                            symbol |-> name, opcode |-> Unset]}
                   /\ Len(errors'.head) = Len(errors.head) + 1
              /\ ~old.found =>
                   /\ errors' = errors
                   /\ checkHash(hash_head', hashgen(name, HASH_SIZE), name)
                        = [found |-> TRUE, address |-> address]
                   /\ TableEntries(hash_head') = TableEntries(hash_head) + 1
    ]_vars

\* Behind two data words, a line of the data section with no directive has
\* put its first token into the table at the address 2.
C29_Witness ==
  /\ pc = "pass1"
  /\ found_data = 1
  /\ Len(src) = 4
  /\ NoDirective(src[4])
  /\ Len(data.head) = 2
  /\ address = 2
  /\ checkHash(hash_head, hashgen(FirstToken(src[4]), HASH_SIZE), FirstToken(src[4]))
       = [found |-> TRUE, address |-> 2]

\* C30: the run on a finite source terminates in the final state: pass 1
\* ends when the lines are used up, pass 2 deals with each node once, and
\* then the report or the listing is written.
C30_Terminates ==
  <>(pc = "done" /\ (errfile.written \/ objfile.written))

\* Each step of pass 2 deals with the node at cur and moves on to the next.
PassTwoOnce ==
  [][ (pc = "pass2" /\ pc' = "pass2") => cur' = cur + 1 ]_vars

====
